---- MODULE Spec2Model ----
(***************************************************************************)
(* Model of the taxbot server: the GET /api/transactions/:address handler  *)
(* in its four snapshots (server/index.js, part_000, part_001, part_002),  *)
(* the price cache (getTokenPrice) and the holdings/metadata path.         *)
(*                                                                         *)
(* Numbers.  JavaScript doubles are modelled by integers in fixed units:   *)
(*   - native-asset quantities are kept in lamports (the source divides by *)
(*     1e9 for display; a field tagged "SOL" holding n means n / 1e9);     *)
(*   - fiat values derived from lamports are in 1e-9 USD;                  *)
(*   - token amounts and token prices are whole numbers.                   *)
(***************************************************************************)
EXTENDS Integers, Sequences, FiniteSets, TLC

\* ------------------------------------------------------------------ bounds
MaxSigs == 2        \* longest transaction-reference listing the RPC returns
MaxHoldings == 1    \* most token accounts the RPC returns for one owner
MaxLookups == 3     \* price lookups made by the price-cache driver
MaxNow == 450000    \* last clock value (ms) the price-cache driver reaches
TickMs == 150000    \* clock step (ms) of the price-cache driver
MaxResolutions == 3 \* metadata resolutions made by the resolver driver
MaxEvents == 3      \* longest event list the aggregation driver sums
SignificandBits == 10   \* significand kept by the driver's additions

\* ------------------------------------------------------- program constants
MAX_RETRIES == 3
CACHE_DURATION == 5 * 60 * 1000
INCOME_RATE_PCT == 37
GAINS_RATE_PCT == 20

Variants == {"server_index", "part_000", "part_001", "part_002"}

\* The address strings a request can carry, by what the key decoder makes
\* of them: blank (only whitespace), undecodable (new PublicKey throws),
\* offcurve (decodes, but PublicKey.isOnCurve is false), oncurve.
AddrKinds == {"blank", "undecodable", "offcurve", "oncurve"}

\* new PublicKey(address) returns normally
PublicKeyOk(a) == a \in {"offcurve", "oncurve"}

\* PublicKey.isOnCurve(pubKey.toBytes())
IsOnCurve(a) == a = "oncurve"

\* walletAddress.trim().length === 0
IsBlank(a) == a = "blank"

\* Asset identifiers: the two mints of tokenMapping (part_001) and one
\* mint no table knows.
SOL_MINT == "So11111111111111111111111111111111111111112"
USDC_MINT == "EPjFWdd5AufqSSqeM2qN1xzybapC8G4wEGGkZwyTDt1v"
OTHER_MINT == "Mint1111AAAAAAAAAAAAAAAAAAAAAAAAAAAAAAAAAAA"

\* the JavaScript values undefined and NaN, where a number is expected
Undefined == -999999
NaN == -999998

\* a * b and a + b of JavaScript numbers
Mul(a, b) == IF a \in {Undefined, NaN} \/ b \in {Undefined, NaN} THEN NaN ELSE a * b
Add(a, b) == IF a \in {Undefined, NaN} \/ b \in {Undefined, NaN} THEN NaN ELSE a + b

EmptyMap == [x \in {} |-> 0]

\* ------------------------------------------------------------ price cache
\* What the external price source does with one request.
SourceOutcomes ==
    { [kind |-> "fail", usd |-> 0], [kind |-> "noprice", usd |-> 0],
      [kind |-> "price", usd |-> 2], [kind |-> "price", usd |-> 3] }

\* part_001: tokenMapping
tokenMapping == (SOL_MINT :> "solana") @@ (USDC_MINT :> "usd-coin")

\* server/index.js: const cacheKey = `${mintAddress}-${timestamp}`
CacheKeyIndex(mintAddress, timestamp) == <<mintAddress, timestamp>>

\* server/index.js getTokenPrice: the price returned, the cache afterwards
\* and the number of external calls made.
GetTokenPriceIndex(cache, mintAddress, timestamp, out) ==
    LET cacheKey == CacheKeyIndex(mintAddress, timestamp) IN
    IF cacheKey \in DOMAIN cache
    THEN [price |-> cache[cacheKey].price, cache |-> cache, calls |-> 0]
    ELSE IF out.kind = "fail"
    THEN [price |-> 0, cache |-> cache, calls |-> 1]
    ELSE LET price == IF out.kind = "price" /\ out.usd # 0 THEN out.usd ELSE 0
         IN [price |-> price,
             cache |-> (cacheKey :> [price |-> price]) @@ cache,
             calls |-> 1]

\* CacheFresh with the age test turned around
CacheFreshInverted(cache, mint, clock) ==
    mint \in DOMAIN cache /\ clock - cache[mint].timestamp > CACHE_DURATION

\* part_001: cached && now - cached.timestamp < CACHE_DURATION
CacheFresh(cache, mint, clock) ==
    mint \in DOMAIN cache /\ clock - cache[mint].timestamp < CACHE_DURATION

\* part_001 getTokenPrice, lines 55-66: what follows the external call;
\* calledAt is the value of now read at line 43
PriceReplyP1(cache, calledAt, mint, out) ==
    IF out.kind = "fail"
    THEN [price |-> 0, cache |-> cache, calls |-> 1]
    ELSE LET price == IF out.kind = "price" THEN out.usd ELSE Undefined
         IN [price |-> price,
             cache |-> (mint :> [price |-> price, timestamp |-> calledAt]) @@ cache,
             calls |-> 1]

\* part_001 getTokenPrice, lines 43-53: the lookup needs the external call
NeedsCallP1(cache, clock, mint) ==
    ~CacheFresh(cache, mint, clock) /\ mint \in DOMAIN tokenMapping

\* part_001 getTokenPrice
GetTokenPriceP1(cache, clock, mint, out) ==
    IF CacheFresh(cache, mint, clock)
    THEN [price |-> cache[mint].price, cache |-> cache, calls |-> 0]
    ELSE IF mint \notin DOMAIN tokenMapping
    THEN [price |-> 0, cache |-> cache, calls |-> 0]
    ELSE PriceReplyP1(cache, clock, mint, out)

\* ------------------------------------------------------- token metadata
\* The bulk asset list served by token.jup.ag: it knows USDC only.
JupiterList == {USDC_MINT}

\* the list entry's symbol / name / decimals
ListMetadata(mint) == [symbol |-> "USDC", name |-> "USD Coin", decimals |-> 6]

\* What the on-chain lookup (getParsedAccountInfo) does with one request:
\* it fails, answers without a symbol, or answers with one.
ChainOutcomes == {"fail", "nosymbol", "symbol"}

\* metadata built from info.value.data.parsed.info when symbol is set
ChainMetadata(mint) == [symbol |-> "ONCH", name |-> "On Chain", decimals |-> 9]

\* mintAddress.slice(0, 8) + '...'
Slice8Dots(mint) ==
    CASE mint = SOL_MINT -> "So111111..."
      [] mint = USDC_MINT -> "EPjFWdd5..."
      [] OTHER -> "Mint1111..."

\* FallbackMetadata with the whole identifier as symbol
FallbackMetadataWholeId(mint) ==
    [symbol |-> mint, name |-> "Unknown Token", decimals |-> 9]

\* the synthetic fallback of getTokenMetadata
FallbackMetadata(mint) ==
    [symbol |-> Slice8Dots(mint), name |-> "Unknown Token", decimals |-> 9]

NoMetadata == [symbol |-> "", name |-> "", decimals |-> 0]

\* ------------------------------------------------ upstream answer shapes
\* Token accounts getParsedTokenAccountsByOwner can return for the owner:
\* every sequence of at most MaxHoldings of these.
HoldingAccounts ==
    { [mint |-> USDC_MINT, amount |-> 5, decimals |-> 0, uiAmount |-> 5],
      [mint |-> OTHER_MINT, amount |-> 7, decimals |-> 0, uiAmount |-> 7],
      [mint |-> OTHER_MINT, amount |-> 0, decimals |-> 0, uiAmount |-> 0] }

RECURSIVE SeqsUpTo(_, _)
\* all sequences over S of length at most n
SeqsUpTo(S, n) ==
    IF n = 0 THEN {<<>>}
    ELSE LET shorter == SeqsUpTo(S, n - 1)
         IN shorter \cup {Append(q, x) : q \in shorter, x \in S}

HoldingLists == SeqsUpTo(HoldingAccounts, MaxHoldings)

\* One token-balance entry of a transaction's meta.
TB(accountIndex, mint, uiAmount) ==
    [accountIndex |-> accountIndex, mint |-> mint, uiAmount |-> uiAmount]

\* A transaction record as getTransaction / getParsedTransaction returns
\* it.  meta = FALSE is a record whose meta is null; blockTime = 0 is an
\* absent block time; innerTransfer says whether some inner instruction is
\* an spl-token transfer; walletIndex is the position of the queried
\* account among the record's account keys (0 is the fee payer).
Tx(meta, blockTime, fee, innerTransfer, walletIndex, pre, post, preTok, postTok) ==
    [meta |-> meta, blockTime |-> blockTime, fee |-> fee,
     innerTransfer |-> innerTransfer, walletIndex |-> walletIndex,
     preBalances |-> pre, postBalances |-> post,
     preTokenBalances |-> preTok, postTokenBalances |-> postTok]

TxPool ==
    { \* fee only paid by another account: no change at position 0
      Tx(TRUE, 100, 5000, FALSE, 0, <<20000, 9000>>, <<20000, 4000>>, <<>>, <<>>),
      \* native transfer received at position 0
      Tx(TRUE, 200, 5000, FALSE, 0, <<10000, 40000>>, <<30000, 15000>>, <<>>, <<>>),
      \* native transfer sent from position 0
      Tx(TRUE, 0, 5000, FALSE, 0, <<30000, 10000>>, <<5000, 30000>>, <<>>, <<>>),
      \* token received at account position 1
      Tx(TRUE, 300, 5000, FALSE, 0, <<20000, 9000>>, <<15000, 9000>>,
         <<TB(1, USDC_MINT, 5)>>, <<TB(1, USDC_MINT, 15)>>),
      \* swap: USDC out, other token in
      Tx(TRUE, 400, 5000, TRUE, 0, <<20000, 9000>>, <<15000, 9000>>,
         <<TB(1, USDC_MINT, 10), TB(2, OTHER_MINT, 0)>>,
         <<TB(1, USDC_MINT, 4), TB(2, OTHER_MINT, 8)>>),
      \* a token balance entry without uiTokenAmount (uiAmount = Undefined)
      Tx(TRUE, 450, 5000, TRUE, 0, <<20000, 9000>>, <<15000, 9000>>,
         <<TB(1, USDC_MINT, 5), TB(2, OTHER_MINT, 1)>>,
         <<TB(1, USDC_MINT, 9), TB(2, OTHER_MINT, Undefined)>>),
      \* a record without meta
      Tx(FALSE, 500, 0, FALSE, 0, <<>>, <<>>, <<>>, <<>>) }

\* A transaction reference of the signature listing, with the record the
\* node holds for it.
SigNames == <<"sig1", "sig2", "sig3", "sig4">>

SigRef(i, tx) ==
    [signature |-> SigNames[i], blockTime |-> tx.blockTime, tx |-> tx]

RECURSIVE SigLists(_)
\* all listings of exactly n references, signatures in listing order
SigLists(n) ==
    IF n = 0 THEN {<<>>}
    ELSE {Append(q, SigRef(n, t)) : q \in SigLists(n - 1), t \in TxPool}

RECURSIVE SigListsUpTo(_)
SigListsUpTo(n) == IF n = 0 THEN SigLists(0) ELSE SigLists(n) \cup SigListsUpTo(n - 1)

\* getBalance: a failure (-1) or the balance in lamports
BalanceOutcomes == {-1, 2500}

\* what the price source does with a request made by a part_001 handler
HandlerPriceOutcomes ==
    { [kind |-> "fail", usd |-> 0], [kind |-> "price", usd |-> 2] }

\* the native-asset price request of server/index.js
SolPriceOutcomes ==
    { [kind |-> "fail", usd |-> 0], [kind |-> "noprice", usd |-> 0],
      [kind |-> "price", usd |-> 2] }

\* What one record fetch does: it fails, finds nothing, or returns the record.
FetchOutcomes == {"throw", "null", "ok"}

\* ------------------------------------------------------------------ state
VARIABLES
    variant,            \* which server snapshot is running
    addr,               \* the kind of address string of the request
    pc,                 \* position of the request handler
    now,                \* Date.now(), in ms
    net,                \* network calls issued so far, by collaborator
    resp,               \* the response sent: status, body keys, error text
    nResp,              \* number of responses sent on this request
    attempts,           \* attempts (loop passes) made of each upstream call
    delays,             \* sleeps taken by each retry loop, in order
    failedCall,         \* the upstream call whose failure ended the query
    connection,         \* the module-level connection is set
    loc,                \* the handler's local variables
    cb,                 \* holdings callbacks (one per token account)
    txcb,               \* per-record callbacks of the concurrent fan-out
    tokenPriceCache,
    tokenMetadataCache,
    jupiterTokenList,   \* TRUE once the bulk list is loaded
    lookups,            \* price-cache driver: the lookups made so far
    sample,             \* classifier driver: the record at hand and its event
    health,             \* the last answer to GET /health
    client              \* the React client: its state, its requests in flight

vars == <<variant, addr, pc, now, net, resp, nResp, attempts, delays,
          failedCall, connection, loc, cb, txcb, tokenPriceCache,
          tokenMetadataCache, jupiterTokenList, lookups, sample, health, client>>

envVars == <<variant, addr, now>>
cacheVars == <<tokenPriceCache, tokenMetadataCache, jupiterTokenList>>
retryVars == <<attempts, delays>>

NoResp == [status |-> 0, keys |-> {}, error |-> ""]

\* the classifier driver holds no record
NoSample == [st |-> "none"]

\* GET /health was not requested yet
NoHealth == [status |-> 0, keys |-> {}, rpcEndpoint |-> ""]

\* no client is mounted
NoClient == [app |-> ""]

NoSummary ==
    [present |-> FALSE, totalIncome |-> 0, capitalGains |-> 0,
     totalFees |-> 0, taxLiability |-> 0]

InitLoc ==
    [balance |-> 0, solPrice |-> 0, tokenAccounts |-> <<>>,
     holdingsFailed |-> FALSE, signatures |-> <<>>, listing |-> <<>>,
     listed |-> FALSE, idx |-> 1,
     transactions |-> <<>>, totalIncome |-> 0, capitalGains |-> 0,
     totalFees |-> 0, taxSummary |-> NoSummary, retries |-> 0,
     failedTransactions |-> 0, totalValue |-> 0, ret |-> "",
     processed |-> <<>>, sigError |-> ""]

InitCommon ==
    /\ now = 0
    /\ net = [rpc |-> 0, price |-> 0, list |-> 0]
    /\ resp = NoResp
    /\ nResp = 0
    /\ attempts = [init |-> 0, balance |-> 0, signatures |-> 0]
    /\ delays = [init |-> <<>>, balance |-> <<>>, signatures |-> <<>>]
    /\ failedCall = ""
    /\ loc = InitLoc
    /\ cb = <<>>
    /\ txcb = <<>>
    /\ tokenPriceCache = EmptyMap
    /\ tokenMetadataCache = EmptyMap
    /\ jupiterTokenList = FALSE
    /\ lookups = <<>>
    /\ sample = NoSample
    /\ health = NoHealth
    /\ client = NoClient

\* A request arrives at a freshly started server.
Init ==
    /\ variant \in Variants
    /\ addr \in AddrKinds
    /\ pc = "start"
    /\ connection \in (IF variant = "part_000" THEN BOOLEAN ELSE {TRUE})
    /\ InitCommon

\* res.status(status).json(body); the handler returns or ends after it
Respond(status, keys, error) ==
    /\ resp' = [status |-> status, keys |-> keys, error |-> error]
    /\ nResp' = nResp + 1
    /\ pc' = "done"

Call(kind, n) == net' = [net EXCEPT ![kind] = @ + n]

\* --------------------------------------------- server/index.js: helpers
\* balances.find(b => b.accountIndex === accountIndex)
RECURSIVE FindByIndex(_, _)
FindByIndex(balances, accountIndex) ==
    IF balances = <<>> THEN [found |-> FALSE, mint |-> "", uiAmount |-> 0]
    ELSE IF Head(balances).accountIndex = accountIndex
    THEN [found |-> TRUE, mint |-> Head(balances).mint,
          uiAmount |-> Head(balances).uiAmount]
    ELSE FindByIndex(Tail(balances), accountIndex)

Token(mint, amount, usdValue) ==
    [mint |-> mint, amount |-> amount, usdValue |-> usdValue]

\* index.js swap branch: for (const post of postTokenBalances) ...
RECURSIVE IxInTokens(_, _)
IxInTokens(preTok, postTok) ==
    IF postTok = <<>> THEN <<>>
    ELSE LET post == Head(postTok)
             pre == FindByIndex(preTok, post.accountIndex)
         IN (IF ~pre.found \/ post.uiAmount > pre.uiAmount
             THEN <<Token(post.mint, post.uiAmount - pre.uiAmount, 0)>>
             ELSE <<>>) \o IxInTokens(preTok, Tail(postTok))

\* index.js swap branch: for (const pre of preTokenBalances) ...
RECURSIVE IxOutTokens(_, _)
IxOutTokens(preTok, postTok) ==
    IF preTok = <<>> THEN <<>>
    ELSE LET pre == Head(preTok)
             post == FindByIndex(postTok, pre.accountIndex)
         IN (IF ~post.found \/ pre.uiAmount > post.uiAmount
             THEN <<Token(pre.mint, pre.uiAmount - post.uiAmount, 0)>>
             ELSE <<>>) \o IxOutTokens(Tail(preTok), postTok)

Event(signature, timestamp, type, inTokens, outTokens, fee, feeUnit, profit) ==
    [signature |-> signature, timestamp |-> timestamp, type |-> type,
     inTokens |-> inTokens, outTokens |-> outTokens, fee |-> fee,
     feeUnit |-> feeUnit, profit |-> profit, value |-> 0]

\* index.js lines 337-411: the event built from a fetched record (tx.meta
\* is set).  Native amounts in lamports, fiat values in 1e-9 USD.
IxClassify(sig, tx, solPrice, clock) ==
    LET timestamp == IF tx.blockTime # 0 THEN tx.blockTime ELSE clock \div 1000
        solChange == tx.postBalances[1] - tx.preBalances[1]
    IN IF tx.innerTransfer
       THEN Event(sig.signature, timestamp, "SWAP",
                  IxInTokens(tx.preTokenBalances, tx.postTokenBalances),
                  IxOutTokens(tx.preTokenBalances, tx.postTokenBalances),
                  tx.fee, "SOL", solChange * solPrice)
       ELSE IF tx.preBalances[1] # tx.postBalances[1]
       THEN Event(sig.signature, timestamp, "SOL_TRANSFER",
                  IF solChange > 0
                  THEN <<Token("SOL", solChange, solChange * solPrice)>>
                  ELSE <<>>,
                  IF solChange < 0
                  THEN <<Token("SOL", -solChange, (-solChange) * solPrice)>>
                  ELSE <<>>,
                  tx.fee, "SOL", 0)
       ELSE Event(sig.signature, timestamp, "TRANSFER", <<>>, <<>>,
                  tx.fee, "SOL", 0)

\* some token balance entry has no uiTokenAmount
Malformed(balances) == \E i \in DOMAIN balances : balances[i].uiAmount = Undefined

\* index.js lines 337-411 raise: tx.meta is null (line 341), or the swap
\* branch reads uiTokenAmount.uiAmount of an entry that has none
IxThrows(tx) ==
    \/ ~tx.meta
    \/ tx.innerTransfer /\ (Malformed(tx.preTokenBalances) \/ Malformed(tx.postTokenBalances))

RECURSIVE IxGains(_)
\* index.js lines 426-434, capital gains part
IxGains(txs) ==
    IF txs = <<>> THEN 0
    ELSE (IF Head(txs).type = "SWAP" /\ Head(txs).profit > 0
          THEN Head(txs).profit ELSE 0) + IxGains(Tail(txs))

RECURSIVE IxIncome(_)
\* index.js lines 426-434, income part
IxIncome(txs) ==
    IF txs = <<>> THEN 0
    ELSE (IF Head(txs).type = "SOL_TRANSFER" /\ Head(txs).inTokens # <<>>
          THEN Head(txs).inTokens[1].usdValue ELSE 0) + IxIncome(Tail(txs))

RECURSIVE FeeSum(_)
\* transactions.reduce((sum, tx) => sum + tx.fees, 0)
FeeSum(txs) == IF txs = <<>> THEN 0 ELSE Head(txs).fee + FeeSum(Tail(txs))

\* the tax summary; taxLiability is kept times 100 (rates 0.37 and 0.20)
Summary(totalIncome, capitalGains, totalFees) ==
    [present |-> TRUE, totalIncome |-> totalIncome,
     capitalGains |-> capitalGains, totalFees |-> totalFees,
     taxLiability |-> INCOME_RATE_PCT * totalIncome + GAINS_RATE_PCT * capitalGains]

\* index.js lines 417-437
IxTaxSummary(txs) == Summary(IxIncome(txs), IxGains(txs), FeeSum(txs))

\* .sort((a, b) => b.uiAmount - a.uiAmount): stable, descending
RECURSIVE InsertDesc(_, _)
InsertDesc(sorted, x) ==
    IF sorted = <<>> THEN <<x>>
    ELSE IF Head(sorted).uiAmount >= x.uiAmount
    THEN <<Head(sorted)>> \o InsertDesc(Tail(sorted), x)
    ELSE <<x>> \o sorted

RECURSIVE SortDesc(_)
SortDesc(s) ==
    IF s = <<>> THEN <<>>
    ELSE InsertDesc(SortDesc(SubSeq(s, 1, Len(s) - 1)), s[Len(s)])

\* the body keys of each variant's success response
SuccessKeysIndex ==
    {"balance", "balanceUSD", "tokenAccounts", "transactions", "taxSummary"}

\* ------------------------------------ server/index.js: holdings callbacks
\* loadJupiterTokenList keeping the whole list when its request failed
TokensOnReplyKept(ok) == JupiterList

\* loadJupiterTokenList (lines 53-66): the mints of the list the call hands
\* back once its request returned: the loaded list, or [] when it failed
TokensOnReply(ok) == IF ok THEN JupiterList ELSE {}

\* One callback of accounts.value.map(async account => ...), run up to its
\* first network await.  list: whether the bulk list is loaded; cache: the
\* metadata cache when the callback starts.
CbStart(account, cache, list) ==
    LET base == [mint |-> account.mint, amount |-> account.amount,
                 decimals |-> account.decimals, uiAmount |-> account.uiAmount,
                 keep |-> TRUE, meta |-> NoMetadata, st |-> "done",
                 listOut |-> ""]
    IN IF ~(account.uiAmount > 0) THEN [base EXCEPT !.keep = FALSE]
       ELSE IF account.mint \in DOMAIN cache
       THEN [base EXCEPT !.meta = cache[account.mint]]
       ELSE IF ~list THEN [base EXCEPT !.st = "await_list"]
       ELSE IF account.mint \in JupiterList
       THEN [base EXCEPT !.meta = ListMetadata(account.mint), !.st = "found"]
       ELSE [base EXCEPT !.st = "await_chain"]

\* number of callbacks of cbs in state st
CountSt(cbs, st) == Cardinality({i \in DOMAIN cbs : cbs[i].st = st})

\* the cache after every callback in state "found" stored its metadata
StoreFound(cbs, cache) ==
    [m \in DOMAIN cache \cup {cbs[i].mint : i \in {j \in DOMAIN cbs : cbs[j].st = "found"}} |->
        IF \E i \in DOMAIN cbs : cbs[i].st = "found" /\ cbs[i].mint = m
        THEN ListMetadata(m) ELSE cache[m]]

\* callbacks in state "found" have returned
Settle(cbs) == [i \in DOMAIN cbs |-> IF cbs[i].st = "found" THEN [cbs[i] EXCEPT !.st = "done"] ELSE cbs[i]]

\* the token-account object a finished callback returns
HoldingOf(c) ==
    [mint |-> c.mint, symbol |-> c.meta.symbol, name |-> c.meta.name,
     amount |-> c.amount, decimals |-> c.decimals, uiAmount |-> c.uiAmount]

RECURSIVE KeptHoldings(_)
\* tokenAccounts.filter(account => account !== null)
KeptHoldings(cbs) ==
    IF cbs = <<>> THEN <<>>
    ELSE (IF Head(cbs).keep THEN <<HoldingOf(Head(cbs))>> ELSE <<>>)
         \o KeptHoldings(Tail(cbs))

\* ------------------------------------------- server/index.js: the handler
\* lines 303-313: validate the address
IxValidate ==
    /\ variant = "server_index" /\ pc = "start"
    /\ IF PublicKeyOk(addr)
       THEN /\ pc' = "ix_balance"
            /\ UNCHANGED <<resp, nResp>>
       ELSE Respond(400, {"error", "details"}, "Invalid Solana address")
    /\ UNCHANGED <<envVars, net, retryVars, failedCall, connection, loc, cb,
                   txcb, cacheVars, lookups, sample, health, client>>

\* lines 315-320: Promise.all([getBalance, axios.get(price)])
IxBalanceAndPrice ==
    /\ variant = "server_index" /\ pc = "ix_balance"
    /\ \E bal \in BalanceOutcomes, out \in SolPriceOutcomes :
         /\ net' = [net EXCEPT !.rpc = @ + 1, !.price = @ + 1]
         /\ attempts' = [attempts EXCEPT !.balance = @ + 1]
         /\ IF bal = -1 \/ out.kind # "price"
            THEN /\ Respond(500, {"error", "details"}, "Failed to fetch transactions")
                 /\ failedCall' = IF bal = -1 THEN "balance" ELSE "price"
                 /\ UNCHANGED loc
            ELSE /\ loc' = [loc EXCEPT !.balance = bal, !.solPrice = out.usd]
                 /\ pc' = "ix_holdings"
                 /\ UNCHANGED <<resp, nResp, failedCall>>
    /\ UNCHANGED <<envVars, delays, connection, cb, txcb, cacheVars, lookups, sample, health, client>>

\* lines 151-178: getParsedTokenAccountsByOwner, then every callback of the
\* map runs to its first network await
IxHoldingsCall ==
    /\ variant = "server_index" /\ pc = "ix_holdings"
    /\ \E ok \in BOOLEAN, accounts \in HoldingLists :
         IF ~ok
         THEN /\ accounts = <<>>
              /\ Call("rpc", 1)
              /\ loc' = [loc EXCEPT !.tokenAccounts = <<>>, !.holdingsFailed = TRUE]
              /\ pc' = "ix_sigs"
              /\ UNCHANGED <<cb, tokenMetadataCache>>
         ELSE LET started == [i \in DOMAIN accounts |->
                                CbStart(accounts[i], tokenMetadataCache, jupiterTokenList)]
              IN /\ cb' = Settle(started)
                 /\ tokenMetadataCache' = StoreFound(started, tokenMetadataCache)
                 /\ net' = [net EXCEPT !.rpc = @ + 1 + CountSt(started, "await_chain"),
                                       !.list = @ + CountSt(started, "await_list")]
                 /\ pc' = "ix_meta"
                 /\ UNCHANGED loc
    /\ UNCHANGED <<envVars, resp, nResp, retryVars, failedCall, connection,
                   txcb, tokenPriceCache, jupiterTokenList, lookups, sample, health, client>>

\* lines 53-91: the bulk list request of callback i returns
IxListReply(i) ==
    /\ variant = "server_index" /\ pc = "ix_meta"
    /\ i \in DOMAIN cb /\ cb[i].st = "await_list"
    /\ \E ok \in BOOLEAN :
         /\ jupiterTokenList' = (jupiterTokenList \/ ok)
         /\ IF cb[i].mint \in TokensOnReply(ok)
            THEN /\ cb' = [cb EXCEPT ![i].meta = ListMetadata(cb[i].mint), ![i].st = "done",
                                     ![i].listOut = IF ok THEN "ok" ELSE "fail"]
                 /\ tokenMetadataCache' =
                        (cb[i].mint :> ListMetadata(cb[i].mint)) @@ tokenMetadataCache
                 /\ UNCHANGED net
            ELSE /\ cb' = [cb EXCEPT ![i].st = "await_chain",
                                     ![i].listOut = IF ok THEN "ok" ELSE "fail"]
                 /\ Call("rpc", 1)
                 /\ UNCHANGED tokenMetadataCache
    /\ UNCHANGED <<envVars, pc, resp, nResp, retryVars, failedCall, connection,
                   loc, txcb, tokenPriceCache, lookups, sample, health, client>>

\* lines 93-120: the on-chain lookup of callback i returns
IxChainReply(i) ==
    /\ variant = "server_index" /\ pc = "ix_meta"
    /\ i \in DOMAIN cb /\ cb[i].st = "await_chain"
    /\ \E out \in ChainOutcomes :
         IF out = "symbol"
         THEN /\ cb' = [cb EXCEPT ![i].meta = ChainMetadata(cb[i].mint), ![i].st = "done"]
              /\ tokenMetadataCache' =
                     (cb[i].mint :> ChainMetadata(cb[i].mint)) @@ tokenMetadataCache
         ELSE /\ cb' = [cb EXCEPT ![i].meta = FallbackMetadata(cb[i].mint), ![i].st = "done"]
              /\ UNCHANGED tokenMetadataCache
    /\ UNCHANGED <<envVars, pc, net, resp, nResp, retryVars, failedCall,
                   connection, loc, txcb, tokenPriceCache, jupiterTokenList, lookups, sample, health, client>>

\* lines 180-183 and 323: Promise.all resolves; filter and sort
IxHoldingsDone ==
    /\ variant = "server_index" /\ pc = "ix_meta"
    /\ \A i \in DOMAIN cb : cb[i].st = "done"
    /\ loc' = [loc EXCEPT !.tokenAccounts = SortDesc(KeptHoldings(cb))]
    /\ pc' = "ix_sigs"
    /\ UNCHANGED <<envVars, net, resp, nResp, retryVars, failedCall, connection,
                   cb, txcb, cacheVars, lookups, sample, health, client>>

\* line 326: getSignaturesForAddress(publicKey, { limit: 20 })
IxSignatures ==
    /\ variant = "server_index" /\ pc = "ix_sigs"
    /\ Call("rpc", 1)
    /\ attempts' = [attempts EXCEPT !.signatures = @ + 1]
    /\ \E ok \in BOOLEAN, sigs \in SigListsUpTo(MaxSigs) :
         IF ~ok
         THEN /\ sigs = <<>>
              /\ Respond(500, {"error", "details"}, "Failed to fetch transactions")
              /\ failedCall' = "signatures"
              /\ UNCHANGED loc
         ELSE /\ loc' = [loc EXCEPT !.signatures = sigs, !.listing = sigs,
                                    !.listed = TRUE, !.idx = 1,
                                    !.processed = [i \in DOMAIN sigs |-> "pending"]]
              /\ pc' = "ix_loop"
              /\ UNCHANGED <<resp, nResp, failedCall>>
    /\ UNCHANGED <<envVars, delays, connection, cb, txcb, cacheVars, lookups, sample, health, client>>

\* lines 329-415: one iteration of the loop over the signatures
IxRecord ==
    /\ variant = "server_index" /\ pc = "ix_loop"
    /\ loc.idx <= Len(loc.signatures)
    /\ Call("rpc", 1)
    /\ \E out \in FetchOutcomes :
         LET sig == loc.signatures[loc.idx]
             good == out = "ok" /\ ~IxThrows(sig.tx)
         IN loc' = [loc EXCEPT
                !.idx = @ + 1,
                !.processed[loc.idx] = IF good THEN "ok" ELSE "dropped",
                !.transactions =
                    IF good
                    THEN Append(@, IxClassify(sig, sig.tx, loc.solPrice, now))
                    ELSE @]
    /\ UNCHANGED <<envVars, pc, resp, nResp, retryVars, failedCall, connection,
                   cb, txcb, cacheVars, lookups, sample, health, client>>

\* lines 417-445: tax summary and the success response
IxRespond ==
    /\ variant = "server_index" /\ pc = "ix_loop"
    /\ loc.idx > Len(loc.signatures)
    /\ loc' = [loc EXCEPT !.taxSummary = IxTaxSummary(loc.transactions)]
    /\ Respond(200, SuccessKeysIndex, "")
    /\ UNCHANGED <<envVars, net, retryVars, failedCall, connection, cb, txcb,
                   cacheVars, lookups, sample, health, client>>

\* ------------------------------------------------- part_000: the handler
NoEvent == Event("", 0, "", <<>>, <<>>, 0, "", 0)

\* part_000 lines 120-141: the loop over postBalances from entry k on.
\* acc: [threw, inTokens, outTokens, income]; it stops at the first entry
\* whose uiTokenAmount is missing, keeping what was added before.
RECURSIVE P0Loop(_, _, _, _)
P0Loop(preTok, postTok, k, acc) ==
    IF k > Len(postTok) THEN acc
    ELSE LET post == postTok[k]
             pre == FindByIndex(preTok, post.accountIndex)
             diff == post.uiAmount - pre.uiAmount
         IN IF ~pre.found THEN P0Loop(preTok, postTok, k + 1, acc)
            ELSE IF post.uiAmount = Undefined \/ pre.uiAmount = Undefined
            THEN [acc EXCEPT !.threw = TRUE]
            ELSE IF diff > 0
            THEN P0Loop(preTok, postTok, k + 1,
                        [acc EXCEPT !.inTokens = Append(@, Token(post.mint, diff, diff * 1)),
                                    !.income = @ + diff * 1])
            ELSE IF diff < 0
            THEN P0Loop(preTok, postTok, k + 1,
                        [acc EXCEPT !.outTokens = Append(@, Token(post.mint, -diff, (-diff) * 1))])
            ELSE P0Loop(preTok, postTok, k + 1, acc)

RECURSIVE UsdSum(_)
\* tokens.reduce((sum, t) => sum + (t.usdValue || 0), 0)
UsdSum(tokens) == IF tokens = <<>> THEN 0 ELSE Head(tokens).usdValue + UsdSum(Tail(tokens))

\* part_000 lines 106-171: what one callback does with its fetched record
P0Process(sig, tx) ==
    LET fee == IF tx.meta THEN tx.fee ELSE 0
        r == IF tx.meta
             THEN P0Loop(tx.preTokenBalances, tx.postTokenBalances, 1,
                         [threw |-> FALSE, inTokens |-> <<>>, outTokens |-> <<>>, income |-> 0])
             ELSE [threw |-> FALSE, inTokens |-> <<>>, outTokens |-> <<>>, income |-> 0]
        swap == ~r.threw /\ r.inTokens # <<>> /\ r.outTokens # <<>>
        profit == UsdSum(r.inTokens) - UsdSum(r.outTokens)
    IN [keep |-> ~r.threw,
        fees |-> fee, income |-> r.income,
        gains |-> IF swap THEN profit ELSE 0,
        ev |-> IF r.threw THEN NoEvent
               ELSE Event(sig.signature, sig.blockTime,
                          IF swap THEN "SWAP" ELSE "TRANSFER",
                          r.inTokens, r.outTokens, fee, "lamports",
                          IF swap THEN profit ELSE 0)]

RECURSIVE P0Holdings(_)
\* part_000 lines 69-82: non-zero token accounts, valued at 1 each
P0Holdings(accounts) ==
    IF accounts = <<>> THEN <<>>
    ELSE (IF Head(accounts).uiAmount > 0
          THEN <<[mint |-> Head(accounts).mint, amount |-> Head(accounts).uiAmount,
                  decimals |-> Head(accounts).decimals,
                  usdValue |-> Head(accounts).uiAmount * 1]>>
          ELSE <<>>) \o P0Holdings(Tail(accounts))

RECURSIVE KeptEvents(_)
\* transactions.filter(tx => tx !== null)
KeptEvents(cbs) ==
    IF cbs = <<>> THEN <<>>
    ELSE (IF Head(cbs).keep THEN <<Head(cbs).ev>> ELSE <<>>) \o KeptEvents(Tail(cbs))

SuccessKeysP0 ==
    {"walletAddress", "balance", "balanceUSD", "tokenAccounts",
     "tokenBalanceUSD", "transactions", "taxSummary"}

\* lines 57-61: connection check and new PublicKey, inside the outer try
P0Start ==
    /\ variant = "part_000" /\ pc = "start"
    /\ IF connection /\ PublicKeyOk(addr)
       THEN /\ pc' = "p0_holdings"
            /\ UNCHANGED <<resp, nResp>>
       ELSE Respond(500, {"error", "details"}, "Failed to fetch wallet data")
    /\ UNCHANGED <<envVars, net, retryVars, failedCall, connection, loc, cb,
                   txcb, cacheVars, lookups, sample, health, client>>

\* lines 63-84: token accounts
P0HoldingsCall ==
    /\ variant = "part_000" /\ pc = "p0_holdings"
    /\ Call("rpc", 1)
    /\ \E ok \in BOOLEAN, accounts \in HoldingLists :
         IF ~ok
         THEN /\ accounts = <<>>
              /\ Respond(500, {"error", "details"}, "Failed to fetch wallet data")
              /\ failedCall' = "holdings"
              /\ loc' = [loc EXCEPT !.holdingsFailed = TRUE]
         ELSE /\ loc' = [loc EXCEPT !.tokenAccounts = P0Holdings(accounts)]
              /\ pc' = "p0_sigs"
              /\ UNCHANGED <<resp, nResp, failedCall>>
    /\ UNCHANGED <<envVars, retryVars, connection, cb, txcb, cacheVars, lookups, sample, health, client>>

\* lines 86-102: the listing, then every callback issues its getTransaction
P0Signatures ==
    /\ variant = "part_000" /\ pc = "p0_sigs"
    /\ attempts' = [attempts EXCEPT !.signatures = @ + 1]
    /\ \E ok \in BOOLEAN, sigs \in SigListsUpTo(MaxSigs) :
         IF ~ok
         THEN /\ sigs = <<>>
              /\ Call("rpc", 1)
              /\ Respond(500, {"error", "details"}, "Failed to fetch wallet data")
              /\ failedCall' = "signatures"
              /\ UNCHANGED <<loc, txcb>>
         ELSE /\ Call("rpc", 1 + Len(sigs))
              /\ loc' = [loc EXCEPT !.signatures = sigs, !.listing = sigs, !.listed = TRUE,
                                    !.processed = [i \in DOMAIN sigs |-> "pending"]]
              /\ txcb' = [i \in DOMAIN sigs |-> [st |-> "await", keep |-> FALSE, ev |-> NoEvent,
                                                  added |-> 0, fee |-> 0]]
              /\ pc' = "p0_fan"
              /\ UNCHANGED <<resp, nResp, failedCall>>
    /\ UNCHANGED <<envVars, delays, connection, cb, cacheVars, lookups, sample, health, client>>

\* lines 99-176: the getTransaction of callback i returns
P0TxReply(i) ==
    /\ variant = "part_000" /\ pc = "p0_fan"
    /\ i \in DOMAIN txcb /\ txcb[i].st = "await"
    /\ \E out \in FetchOutcomes :
         IF out # "ok"
         THEN /\ txcb' = [txcb EXCEPT ![i].st = "done"]
              /\ loc' = [loc EXCEPT !.processed[i] = "dropped"]
         ELSE LET r == P0Process(loc.signatures[i], loc.signatures[i].tx)
              IN /\ txcb' = [txcb EXCEPT ![i] = [st |-> "done", keep |-> r.keep, ev |-> r.ev,
                                                added |-> r.income, fee |-> r.fees]]
                 /\ loc' = [loc EXCEPT !.totalFees = @ + r.fees,
                                       !.totalIncome = @ + r.income,
                                       !.capitalGains = @ + r.gains,
                                       !.processed[i] = IF r.keep THEN "ok" ELSE "dropped"]
    /\ UNCHANGED <<envVars, pc, net, resp, nResp, retryVars, failedCall,
                   connection, cb, cacheVars, lookups, sample, health, client>>

\* lines 179-201: filter, balance, response
P0BalanceAndRespond ==
    /\ variant = "part_000" /\ pc = "p0_fan"
    /\ \A i \in DOMAIN txcb : txcb[i].st = "done"
    /\ Call("rpc", 1)
    /\ attempts' = [attempts EXCEPT !.balance = @ + 1]
    /\ \E bal \in BalanceOutcomes :
         IF bal = -1
         THEN /\ Respond(500, {"error", "details"}, "Failed to fetch wallet data")
              /\ failedCall' = "balance"
              /\ UNCHANGED loc
         ELSE /\ loc' = [loc EXCEPT
                    !.balance = bal,
                    !.solPrice = 1,
                    !.transactions = KeptEvents(txcb),
                    !.taxSummary = Summary(loc.totalIncome, loc.capitalGains, loc.totalFees)]
              /\ Respond(200, SuccessKeysP0, "")
              /\ UNCHANGED failedCall
    /\ UNCHANGED <<envVars, delays, connection, cb, txcb, cacheVars, lookups, sample, health, client>>

NextP0 ==
    \/ P0Start
    \/ P0HoldingsCall
    \/ P0Signatures
    \/ \E i \in 1..MaxSigs : P0TxReply(i)
    \/ P0BalanceAndRespond

\* ------------------------------------------------- part_002: the handler
\* new Date(currentYear, 0, 1).getTime() / 1000, on the model's time scale
startOfYear == 150

\* what one attempt of the signature loop of calculateYearPL does: the
\* getSlot test fails, the listing call fails, the listing answers with
\* something that is not an array, or it answers with a listing
SigAttemptOutcomes == {"slot_fail", "list_fail", "list_invalid", "ok"}

RECURSIVE FilterYear(_)
\* batch.filter(tx => tx && tx.blockTime && tx.blockTime >= startOfYear)
FilterYear(batch) ==
    IF batch = <<>> THEN <<>>
    ELSE (IF Head(batch).blockTime # 0 /\ Head(batch).blockTime >= startOfYear
          THEN <<Head(batch)>> ELSE <<>>) \o FilterYear(Tail(batch))

RECURSIVE FirstDecrease(_, _, _)
\* preBalances.findIndex((pre, idx) => pre > postBalances[idx]); 0 if none
FirstDecrease(pre, post, i) ==
    IF i > Len(pre) THEN 0
    ELSE IF i <= Len(post) /\ pre[i] > post[i] THEN i
    ELSE FirstDecrease(pre, post, i + 1)

Abs(x) == IF x < 0 THEN -x ELSE x

\* uiTokenAmount?.uiAmount || 0
UiOrZero(b) == IF b.uiAmount = Undefined THEN 0 ELSE b.uiAmount

RECURSIVE LastByIndex(_, _)
\* new Map(balances.map(b => [b.accountIndex, b])).get(accountIndex)
LastByIndex(balances, accountIndex) ==
    IF balances = <<>> THEN [found |-> FALSE, mint |-> "", uiAmount |-> 0]
    ELSE LET b == balances[Len(balances)]
         IN IF b.accountIndex = accountIndex
            THEN [found |-> TRUE, mint |-> b.mint, uiAmount |-> b.uiAmount]
            ELSE LastByIndex(SubSeq(balances, 1, Len(balances) - 1), accountIndex)

\* the distinct account indices of balances
IndexSet(balances) == {balances[i].accountIndex : i \in DOMAIN balances}

RECURSIVE SumOver(_, _, _)
SumOver(S, preTok, postTok) ==
    IF S = {} THEN 0
    ELSE LET a == CHOOSE x \in S : TRUE
             pre == LastByIndex(preTok, a)
             post == LastByIndex(postTok, a)
         IN (IF post.found /\ pre.mint = post.mint /\ UiOrZero(pre) # UiOrZero(post)
             THEN Abs(UiOrZero(post) - UiOrZero(pre)) ELSE 0)
            + SumOver(S \ {a}, preTok, postTok)

\* part_002 calculateTransactionValue, then parseFloat(value.toFixed(4)):
\* the result in units of 1e-4 (lamports / 1e9 rounded to 4 decimals, plus
\* the token differences)
calculateTransactionValue(tx) ==
    IF ~tx.meta THEN 0
    ELSE LET s == FirstDecrease(tx.preBalances, tx.postBalances, 1)
             lamports == IF s = 0 THEN 0 ELSE Abs(tx.postBalances[s] - tx.preBalances[s])
             tokens == SumOver(IndexSet(tx.preTokenBalances),
                               tx.preTokenBalances, tx.postTokenBalances)
         IN (lamports + 50000) \div 100000 + 10000 * tokens

\* the comparator with its operands exchanged: oldest first
ByTimestampAsc(a, b) == a.timestamp - b.timestamp

\* (a, b) => b.timestamp - a.timestamp: a stays before b when this is <= 0
ByTimestampDesc(a, b) == b.timestamp - a.timestamp

RECURSIVE InsertByTime(_, _)
InsertByTime(sorted, x) ==
    IF sorted = <<>> THEN <<x>>
    ELSE IF ByTimestampDesc(Head(sorted), x) <= 0
    THEN <<Head(sorted)>> \o InsertByTime(Tail(sorted), x)
    ELSE <<x>> \o sorted

RECURSIVE SortByTime(_)
\* transactions.sort((a, b) => b.timestamp - a.timestamp)
SortByTime(s) ==
    IF s = <<>> THEN <<>>
    ELSE InsertByTime(SortByTime(SubSeq(s, 1, Len(s) - 1)), s[Len(s)])

RETURNED_TRANSACTIONS == 10

\* .slice(0, 10)
Slice10(s) == IF Len(s) <= RETURNED_TRANSACTIONS THEN s ELSE SubSeq(s, 1, RETURNED_TRANSACTIONS)

RECURSIVE ValueSum(_)
ValueSum(txs) == IF txs = <<>> THEN 0 ELSE Head(txs).value + ValueSum(Tail(txs))

SuccessKeysP2 ==
    {"walletAddress", "balance", "totalValue", "transactions", "balanceUSD",
     "tokenAccounts", "tokenBalanceUSD"}

\* lines 62-79: empty-input check, then the connection check
P2Start ==
    /\ variant = "part_002" /\ pc = "start"
    /\ IF IsBlank(addr)
       THEN /\ Respond(400, {"error"}, "Please enter a wallet address")
            /\ UNCHANGED loc
       ELSE /\ IF connection
               THEN pc' = "p2_test" /\ UNCHANGED loc
               ELSE pc' = "p2_init" /\ loc' = [loc EXCEPT !.retries = 0, !.ret = "p2_test"]
            /\ UNCHANGED <<resp, nResp>>
    /\ UNCHANGED <<envVars, net, retryVars, failedCall, connection, cb, txcb,
                   cacheVars, lookups, sample, health, client>>

\* lines 81-92: connection test before proceeding
P2Test ==
    /\ variant = "part_002" /\ pc = "p2_test"
    /\ Call("rpc", 1)
    /\ \E ok \in BOOLEAN :
         IF ok THEN pc' = "p2_validate" /\ UNCHANGED loc
         ELSE pc' = "p2_init" /\ loc' = [loc EXCEPT !.retries = 0, !.ret = "p2_validate"]
    /\ UNCHANGED <<envVars, resp, nResp, retryVars, failedCall, connection, cb,
                   txcb, cacheVars, lookups, sample, health, client>>

\* the loop body that goes round again after the last failure as well
InitPassNoGiveUp(ok, retries, slept) ==
    IF ok THEN [retries |-> retries, slept |-> slept, exit |-> "true"]
    ELSE [retries |-> retries + 1,
          slept |-> IF retries + 1 < MAX_RETRIES
                    THEN Append(slept, 2000 * (retries + 1)) ELSE slept,
          exit |-> "again"]

\* lines 22-44: the body of the loop of initializeSolanaConnection on the
\* outcome of getSlot: return true on success; on failure count it, sleep
\* 2000 * retries while retries < MAX_RETRIES, else leave the loop (false)
InitPass(ok, retries, slept) ==
    IF ok THEN [retries |-> retries, slept |-> slept, exit |-> "true"]
    ELSE IF retries + 1 < MAX_RETRIES
    THEN [retries |-> retries + 1,
          slept |-> Append(slept, 2000 * (retries + 1)), exit |-> "again"]
    ELSE [retries |-> retries + 1, slept |-> slept, exit |-> "false"]

\* lines 19-46: one pass of the loop of initializeSolanaConnection, and
\* lines 74-78 / 87-91 when it gives up
P2InitAttempt ==
    /\ variant = "part_002" /\ pc = "p2_init"
    /\ loc.retries < MAX_RETRIES
    /\ connection' = TRUE
    /\ Call("rpc", 1)
    /\ attempts' = [attempts EXCEPT !.init = @ + 1]
    /\ \E ok \in BOOLEAN :
         LET r == InitPass(ok, loc.retries, delays.init) IN
         /\ delays' = [delays EXCEPT !.init = r.slept]
         /\ loc' = [loc EXCEPT !.retries = r.retries]
         /\ IF r.exit = "true"
            THEN /\ pc' = loc.ret
                 /\ UNCHANGED <<resp, nResp, failedCall>>
            ELSE IF r.exit = "again"
            THEN UNCHANGED <<pc, resp, nResp, failedCall>>
            ELSE /\ Respond(503, {"error"}, "Unable to connect to Solana network")
                 /\ failedCall' = "init"
    /\ UNCHANGED <<envVars, cb, txcb, cacheVars, lookups, sample, health, client>>

\* lines 94-112: validate the wallet address
P2Validate ==
    /\ variant = "part_002" /\ pc = "p2_validate"
    /\ IF PublicKeyOk(addr) /\ IsOnCurve(addr)
       THEN /\ pc' = "p2_balance"
            /\ loc' = [loc EXCEPT !.retries = 0]
            /\ UNCHANGED <<resp, nResp>>
       ELSE /\ Respond(400, {"error"}, "Invalid wallet address format")
            /\ UNCHANGED loc
    /\ UNCHANGED <<envVars, net, retryVars, failedCall, connection, cb, txcb,
                   cacheVars, lookups, sample, health, client>>

\* the loop body with the sleep taken on every pass, success included
BalancePassAlwaysSleeps(bal, balanceRetries, slept) ==
    IF bal # -1
    THEN [balanceRetries |-> balanceRetries,
          slept |-> Append(slept, 1000 * (balanceRetries + 1)), exit |-> "break"]
    ELSE IF balanceRetries + 1 = MAX_RETRIES
    THEN [balanceRetries |-> balanceRetries + 1, slept |-> slept, exit |-> "return"]
    ELSE [balanceRetries |-> balanceRetries + 1,
          slept |-> Append(slept, 1000 * (balanceRetries + 1)), exit |-> "again"]

\* lines 118-131: the body of the balance loop on a getBalance outcome:
\* break on success; on failure count it, give up at MAX_RETRIES, else
\* sleep(1000 * balanceRetries)
BalancePass(bal, balanceRetries, slept) ==
    IF bal # -1
    THEN [balanceRetries |-> balanceRetries, slept |-> slept, exit |-> "break"]
    ELSE IF balanceRetries + 1 = MAX_RETRIES
    THEN [balanceRetries |-> balanceRetries + 1, slept |-> slept, exit |-> "return"]
    ELSE [balanceRetries |-> balanceRetries + 1,
          slept |-> Append(slept, 1000 * (balanceRetries + 1)), exit |-> "again"]

\* lines 114-133: one pass of the balance retry loop
P2BalanceAttempt ==
    /\ variant = "part_002" /\ pc = "p2_balance"
    /\ loc.retries < MAX_RETRIES
    /\ Call("rpc", 1)
    /\ attempts' = [attempts EXCEPT !.balance = @ + 1]
    /\ \E bal \in BalanceOutcomes :
         LET r == BalancePass(bal, loc.retries, delays.balance) IN
         /\ delays' = [delays EXCEPT !.balance = r.slept]
         /\ IF r.exit = "break"
            THEN /\ loc' = [loc EXCEPT !.balance = bal, !.retries = 0]
                 /\ pc' = "p2_sigs"
                 /\ UNCHANGED <<resp, nResp, failedCall>>
            ELSE /\ loc' = [loc EXCEPT !.retries = r.balanceRetries]
                 /\ IF r.exit = "return"
                    THEN /\ Respond(500, {"error"}, "Failed to fetch SOL balance")
                         /\ failedCall' = "balance"
                    ELSE UNCHANGED <<pc, resp, nResp, failedCall>>
    /\ UNCHANGED <<envVars, connection, cb, txcb, cacheVars, lookups, sample, health, client>>

\* the 200 response of lines 155-167 for a year summary
P2Success(txs) ==
    /\ loc' = [loc EXCEPT !.transactions = txs,
                          !.totalValue = (ValueSum(txs) + 50) \div 100,
                          !.tokenAccounts = <<>>]
    /\ Respond(200, SuccessKeysP2, "")

\* calculateYearPL lines 239-295: one pass of the signature retry loop
P2SigAttempt ==
    /\ variant = "part_002" /\ pc = "p2_sigs"
    /\ loc.retries < MAX_RETRIES
    /\ \E out \in SigAttemptOutcomes, batch \in SigListsUpTo(MaxSigs) :
         /\ out # "ok" => batch = <<>>
         /\ Call("rpc", IF out = "slot_fail" THEN 1 ELSE 2)
         /\ attempts' = [attempts EXCEPT !.signatures = @ + 1]
         /\ IF out = "ok"
            THEN /\ IF FilterYear(batch) = <<>>
                    THEN /\ loc' = [loc EXCEPT !.listing = batch, !.listed = TRUE,
                                               !.signatures = <<>>, !.transactions = <<>>,
                                               !.totalValue = 0, !.tokenAccounts = <<>>,
                                               !.sigError = ""]
                         /\ Respond(200, SuccessKeysP2, "")
                    ELSE /\ loc' = [loc EXCEPT
                                !.listing = batch, !.listed = TRUE,
                                !.signatures = FilterYear(batch), !.idx = 1,
                                !.sigError = "",
                                !.processed = [i \in DOMAIN FilterYear(batch) |-> "pending"]]
                         /\ pc' = "p2_loop"
                         /\ UNCHANGED <<resp, nResp>>
                 /\ UNCHANGED <<delays, failedCall>>
            ELSE /\ loc' = [loc EXCEPT !.retries = @ + 1, !.sigError = out]
                 /\ IF loc.retries + 1 = MAX_RETRIES
                    THEN /\ Respond(500, {"error"}, "Failed to calculate wallet data")
                         /\ failedCall' = "signatures"
                         /\ UNCHANGED delays
                    ELSE /\ delays' = [delays EXCEPT !.signatures = Append(@, 1000 * (loc.retries + 1))]
                         /\ UNCHANGED <<pc, resp, nResp, failedCall>>
    /\ UNCHANGED <<envVars, connection, cb, txcb, cacheVars, lookups, sample, health, client>>

\* calculateYearPL lines 301-334: one iteration of the record loop
P2Record ==
    /\ variant = "part_002" /\ pc = "p2_loop"
    /\ loc.idx <= Len(loc.signatures)
    /\ Call("rpc", 1)
    /\ \E out \in FetchOutcomes :
         LET sig == loc.signatures[loc.idx] IN
         IF out = "ok"
         THEN loc' = [loc EXCEPT
                !.idx = @ + 1,
                !.processed[loc.idx] = "ok",
                !.transactions = Append(@,
                    [Event(sig.signature, sig.blockTime, "", <<>>, <<>>, 0, "", 0)
                        EXCEPT !.value = calculateTransactionValue(sig.tx)])]
         ELSE loc' = [loc EXCEPT !.idx = @ + 1,
                                 !.processed[loc.idx] = "dropped",
                                 !.failedTransactions = @ + 1]
    /\ UNCHANGED <<envVars, pc, resp, nResp, retryVars, failedCall, connection,
                   cb, txcb, cacheVars, lookups, sample, health, client>>

\* calculateYearPL lines 336-352 and handler lines 148-167: the summary, or
\* the error when no record could be processed
P2Finish ==
    /\ variant = "part_002" /\ pc = "p2_loop"
    /\ loc.idx > Len(loc.signatures)
    /\ IF loc.transactions = <<>> /\ loc.failedTransactions > 0
       THEN /\ Respond(500, {"error"}, "Failed to calculate wallet data")
            /\ failedCall' = "records"
            /\ UNCHANGED loc
       ELSE /\ P2Success(Slice10(SortByTime(loc.transactions)))
            /\ UNCHANGED failedCall
    /\ UNCHANGED <<envVars, net, retryVars, connection, cb, txcb, cacheVars, lookups, sample, health, client>>

NextP2 ==
    \/ P2Start
    \/ P2Test
    \/ P2InitAttempt
    \/ P2Validate
    \/ P2BalanceAttempt
    \/ P2SigAttempt
    \/ P2Record
    \/ P2Finish

\* ------------------------------------------------- part_001: the handler
\* The price a lookup returns without an external call (cache hit, or a
\* mint that tokenMapping does not know).
PriceNowP1(cache, clock, mint) ==
    GetTokenPriceP1(cache, clock, mint, [kind |-> "fail", usd |-> 0]).price

\* part_001 lines 105-121: one holdings callback up to its first network await
P1CbStart(account, cache, clock) ==
    LET base == [mint |-> account.mint, amount |-> account.uiAmount,
                 decimals |-> account.decimals, keep |-> TRUE,
                 usdValue |-> 0, st |-> "done"]
    IN IF ~(account.uiAmount > 0) THEN [base EXCEPT !.keep = FALSE]
       ELSE IF NeedsCallP1(cache, clock, account.mint)
       THEN [base EXCEPT !.st = "await_price"]
       ELSE [base EXCEPT !.usdValue = Mul(account.uiAmount, PriceNowP1(cache, clock, account.mint))]

RECURSIVE P1KeptHoldings(_)
\* processedTokenAccounts.filter(token => token !== null)
P1KeptHoldings(cbs) ==
    IF cbs = <<>> THEN <<>>
    ELSE (IF Head(cbs).keep
          THEN <<[mint |-> Head(cbs).mint, amount |-> Head(cbs).amount,
                  decimals |-> Head(cbs).decimals, usdValue |-> Head(cbs).usdValue]>>
          ELSE <<>>) \o P1KeptHoldings(Tail(cbs))

P1NewCb(fee) ==
    [st |-> "run", keep |-> FALSE, ev |-> NoEvent, k |-> 1, phase |-> "in",
     inTokens |-> <<>>, outTokens |-> <<>>, saved |-> 0, fee |-> fee,
     added |-> 0]

\* part_001 lines 183-211: after the loop, the event of the callback
P1Finish(c, sig, S) ==
    LET swap == c.inTokens # <<>> /\ c.outTokens # <<>>
        profit == UsdSum(c.inTokens) - UsdSum(c.outTokens)
    IN [c |-> [c EXCEPT !.st = "done", !.keep = TRUE,
                        !.ev = Event(sig.signature, sig.blockTime,
                                     IF swap THEN "SWAP" ELSE "TRANSFER",
                                     c.inTokens, c.outTokens, c.fee, "lamports",
                                     IF swap THEN profit ELSE 0)],
        S |-> IF swap THEN [S EXCEPT !.capitalGains = @ + profit] ELSE S,
        calls |-> 0]

\* part_001 lines 155-211: callback c runs from entry c.k, phase c.phase,
\* until it finishes, raises, or awaits an external price call.
\* S: the shared accumulators [totalIncome, capitalGains].
RECURSIVE P1Run(_, _, _, _, _)
P1Run(c, sig, S, cache, clock) ==
    LET postTok == sig.tx.postTokenBalances IN
    IF ~sig.tx.meta \/ c.k > Len(postTok) THEN P1Finish(c, sig, S)
    ELSE LET post == postTok[c.k]
             pre == FindByIndex(sig.tx.preTokenBalances, post.accountIndex)
             diff == post.uiAmount - pre.uiAmount
             next == [c EXCEPT !.k = @ + 1, !.phase = "in"]
             wait == NeedsCallP1(cache, clock, post.mint)
             price == PriceNowP1(cache, clock, post.mint)
         IN IF ~pre.found THEN P1Run(next, sig, S, cache, clock)
            ELSE IF post.uiAmount = Undefined \/ pre.uiAmount = Undefined
            THEN [c |-> [c EXCEPT !.st = "done", !.keep = FALSE], S |-> S, calls |-> 0]
            ELSE IF diff > 0 /\ c.phase = "in"
            THEN IF wait
                 THEN [c |-> [c EXCEPT !.st = "await_price"], S |-> S, calls |-> 1]
                 ELSE P1Run([c EXCEPT !.phase = "inc",
                                      !.inTokens = Append(@, Token(post.mint, diff, Mul(diff, price)))],
                            sig, S, cache, clock)
            ELSE IF diff > 0
            THEN IF wait
                 THEN [c |-> [c EXCEPT !.st = "await_price", !.saved = S.totalIncome],
                       S |-> S, calls |-> 1]
                 ELSE P1Run([next EXCEPT !.added = Add(@, Mul(diff, price))], sig,
                            [S EXCEPT !.totalIncome = Add(@, Mul(diff, price))], cache, clock)
            ELSE IF diff < 0
            THEN IF wait
                 THEN [c |-> [c EXCEPT !.st = "await_price", !.phase = "out"], S |-> S, calls |-> 1]
                 ELSE P1Run([next EXCEPT !.outTokens = Append(@, Token(post.mint, -diff, Mul(-diff, price)))],
                            sig, S, cache, clock)
            ELSE P1Run(next, sig, S, cache, clock)

\* the awaited price arrives in callback c: the statement that awaited it
\* completes (lines 167-178)
P1Resume(c, sig, S, price) ==
    LET post == sig.tx.postTokenBalances[c.k]
        pre == FindByIndex(sig.tx.preTokenBalances, post.accountIndex)
        diff == post.uiAmount - pre.uiAmount
        next == [c EXCEPT !.k = @ + 1, !.phase = "in", !.st = "run"]
    IN IF c.phase = "in"
       THEN [c |-> [c EXCEPT !.st = "run", !.phase = "inc",
                             !.inTokens = Append(@, Token(post.mint, diff, Mul(diff, price)))],
             S |-> S]
       ELSE IF c.phase = "inc"
       THEN [c |-> [next EXCEPT !.added = Add(@, Mul(diff, price))],
             S |-> [S EXCEPT !.totalIncome = Add(c.saved, Mul(diff, price))]]
       ELSE [c |-> [next EXCEPT !.outTokens = Append(@, Token(post.mint, -diff, Mul(-diff, price)))],
             S |-> S]

SuccessKeysP1 == SuccessKeysP0

\* lines 93-97: connection check (the connection is a constant that is
\* always set) and new PublicKey, inside the outer try
P1Start ==
    /\ variant = "part_001" /\ pc = "start"
    /\ IF connection /\ PublicKeyOk(addr)
       THEN /\ pc' = "p1_holdings"
            /\ UNCHANGED <<resp, nResp>>
       ELSE Respond(500, {"error", "details"}, "Failed to fetch wallet data")
    /\ UNCHANGED <<envVars, net, retryVars, failedCall, connection, loc, cb,
                   txcb, cacheVars, lookups, sample, health, client>>

\* lines 99-121: token accounts; every callback runs to its first await
P1HoldingsCall ==
    /\ variant = "part_001" /\ pc = "p1_holdings"
    /\ \E ok \in BOOLEAN, accounts \in HoldingLists :
         IF ~ok
         THEN /\ accounts = <<>>
              /\ Call("rpc", 1)
              /\ Respond(500, {"error", "details"}, "Failed to fetch wallet data")
              /\ failedCall' = "holdings"
              /\ loc' = [loc EXCEPT !.holdingsFailed = TRUE]
              /\ UNCHANGED cb
         ELSE LET started == [i \in DOMAIN accounts |->
                                P1CbStart(accounts[i], tokenPriceCache, now)]
              IN /\ cb' = started
                 /\ net' = [net EXCEPT !.rpc = @ + 1,
                                       !.price = @ + CountSt(started, "await_price")]
                 /\ pc' = "p1_prices"
                 /\ UNCHANGED <<resp, nResp, failedCall, loc>>
    /\ UNCHANGED <<envVars, retryVars, connection, txcb, cacheVars, lookups, sample, health, client>>

\* lines 110-111: the price request of holdings callback i returns
P1HoldingPriceReply(i) ==
    /\ variant = "part_001" /\ pc = "p1_prices"
    /\ i \in DOMAIN cb /\ cb[i].st = "await_price"
    /\ \E out \in HandlerPriceOutcomes :
         LET r == PriceReplyP1(tokenPriceCache, now, cb[i].mint, out)
         IN /\ tokenPriceCache' = r.cache
            /\ cb' = [cb EXCEPT ![i].st = "done", ![i].usdValue = Mul(cb[i].amount, r.price)]
    /\ UNCHANGED <<envVars, pc, net, resp, nResp, retryVars, failedCall,
                   connection, loc, txcb, tokenMetadataCache, jupiterTokenList, lookups, sample, health, client>>

\* lines 123-124: Promise.all resolves
P1HoldingsDone ==
    /\ variant = "part_001" /\ pc = "p1_prices"
    /\ \A i \in DOMAIN cb : cb[i].st = "done"
    /\ loc' = [loc EXCEPT !.tokenAccounts = P1KeptHoldings(cb)]
    /\ pc' = "p1_sigs"
    /\ UNCHANGED <<envVars, net, resp, nResp, retryVars, failedCall, connection,
                   cb, txcb, cacheVars, lookups, sample, health, client>>

\* lines 126-142: the listing, then every callback issues its getTransaction
P1Signatures ==
    /\ variant = "part_001" /\ pc = "p1_sigs"
    /\ attempts' = [attempts EXCEPT !.signatures = @ + 1]
    /\ \E ok \in BOOLEAN, sigs \in SigListsUpTo(MaxSigs) :
         IF ~ok
         THEN /\ sigs = <<>>
              /\ Call("rpc", 1)
              /\ Respond(500, {"error", "details"}, "Failed to fetch wallet data")
              /\ failedCall' = "signatures"
              /\ UNCHANGED <<loc, txcb>>
         ELSE /\ Call("rpc", 1 + Len(sigs))
              /\ loc' = [loc EXCEPT !.signatures = sigs, !.listing = sigs, !.listed = TRUE,
                                    !.processed = [i \in DOMAIN sigs |-> "pending"]]
              /\ txcb' = [i \in DOMAIN sigs |-> [P1NewCb(0) EXCEPT !.st = "await_tx"]]
              /\ pc' = "p1_fan"
              /\ UNCHANGED <<resp, nResp, failedCall>>
    /\ UNCHANGED <<envVars, delays, connection, cb, cacheVars, lookups, sample, health, client>>

\* the callback ran on: publish its state and the shared accumulators
P1Publish(i, r) ==
    /\ txcb' = [txcb EXCEPT ![i] = r.c]
    /\ loc' = [loc EXCEPT
           !.totalIncome = r.S.totalIncome,
           !.capitalGains = r.S.capitalGains,
           !.totalFees = @ + (IF txcb[i].st = "await_tx" THEN r.c.fee ELSE 0),
           !.processed[i] = IF r.c.st # "done" THEN @
                            ELSE IF r.c.keep THEN "ok" ELSE "dropped"]
    /\ Call("price", r.calls)

\* lines 139-216: the getTransaction of callback i returns
P1TxReply(i) ==
    /\ variant = "part_001" /\ pc = "p1_fan"
    /\ i \in DOMAIN txcb /\ txcb[i].st = "await_tx"
    /\ \E out \in FetchOutcomes :
         LET sig == loc.signatures[i]
             S == [totalIncome |-> loc.totalIncome, capitalGains |-> loc.capitalGains]
         IN IF out # "ok"
            THEN /\ txcb' = [txcb EXCEPT ![i].st = "done"]
                 /\ loc' = [loc EXCEPT !.processed[i] = "dropped"]
                 /\ UNCHANGED net
            ELSE P1Publish(i, P1Run(P1NewCb(IF sig.tx.meta THEN sig.tx.fee ELSE 0),
                                    sig, S, tokenPriceCache, now))
    /\ UNCHANGED <<envVars, pc, resp, nResp, retryVars, failedCall, connection,
                   cb, cacheVars, lookups, sample, health, client>>

\* lines 170-177: the price request awaited by callback i returns
P1TxPriceReply(i) ==
    /\ variant = "part_001" /\ pc = "p1_fan"
    /\ i \in DOMAIN txcb /\ txcb[i].st = "await_price"
    /\ \E out \in HandlerPriceOutcomes :
         LET sig == loc.signatures[i]
             S == [totalIncome |-> loc.totalIncome, capitalGains |-> loc.capitalGains]
             mint == sig.tx.postTokenBalances[txcb[i].k].mint
             p == PriceReplyP1(tokenPriceCache, now, mint, out)
             resumed == P1Resume(txcb[i], sig, S, p.price)
         IN /\ tokenPriceCache' = p.cache
            /\ P1Publish(i, P1Run(resumed.c, sig, resumed.S, p.cache, now))
    /\ UNCHANGED <<envVars, pc, resp, nResp, retryVars, failedCall, connection,
                   cb, tokenMetadataCache, jupiterTokenList, lookups, sample, health, client>>

\* lines 219-223: filter, then getBalance
P1Balance ==
    /\ variant = "part_001" /\ pc = "p1_fan"
    /\ \A i \in DOMAIN txcb : txcb[i].st = "done"
    /\ Call("rpc", 1)
    /\ attempts' = [attempts EXCEPT !.balance = @ + 1]
    /\ \E bal \in BalanceOutcomes :
         IF bal = -1
         THEN /\ Respond(500, {"error", "details"}, "Failed to fetch wallet data")
              /\ failedCall' = "balance"
              /\ UNCHANGED loc
         ELSE /\ loc' = [loc EXCEPT !.balance = bal, !.transactions = KeptEvents(txcb)]
              /\ pc' = "p1_solprice"
              /\ UNCHANGED <<resp, nResp, failedCall>>
    /\ UNCHANGED <<envVars, delays, connection, cb, txcb, cacheVars, lookups, sample, health, client>>

\* lines 225-241: the native-asset price, then the response
P1SolPriceAndRespond ==
    /\ variant = "part_001" /\ pc = "p1_solprice"
    /\ \E out \in HandlerPriceOutcomes :
         LET r == GetTokenPriceP1(tokenPriceCache, now, SOL_MINT, out)
         IN /\ tokenPriceCache' = r.cache
            /\ Call("price", r.calls)
            /\ loc' = [loc EXCEPT
                   !.solPrice = r.price,
                   !.taxSummary = Summary(loc.totalIncome, loc.capitalGains, loc.totalFees)]
    /\ Respond(200, SuccessKeysP1, "")
    /\ UNCHANGED <<envVars, retryVars, failedCall, connection, cb, txcb,
                   tokenMetadataCache, jupiterTokenList, lookups, sample, health, client>>

NextP1 ==
    \/ P1Start
    \/ P1HoldingsCall
    \/ \E i \in 1..MaxHoldings : P1HoldingPriceReply(i)
    \/ P1HoldingsDone
    \/ P1Signatures
    \/ \E i \in 1..MaxSigs : P1TxReply(i)
    \/ \E i \in 1..MaxSigs : P1TxPriceReply(i)
    \/ P1Balance
    \/ P1SolPriceAndRespond

NextIndex ==
    \/ IxValidate
    \/ IxBalanceAndPrice
    \/ IxHoldingsCall
    \/ \E i \in 1..MaxHoldings : IxListReply(i)
    \/ \E i \in 1..MaxHoldings : IxChainReply(i)
    \/ IxHoldingsDone
    \/ IxSignatures
    \/ IxRecord
    \/ IxRespond

Next ==
    \/ NextIndex
    \/ NextP0
    \/ NextP1
    \/ NextP2

Spec == Init /\ [][Next]_vars

\* part_002 with its three retry loops and its record loop: every network
\* call returns or fails in the end, so the handler step that waits for it
\* is taken in the end
InitLive == Init /\ variant = "part_002"

SpecLive == InitLive /\ [][NextP2]_vars /\ WF_vars(NextP2)

\* ---------------------------------------------------------- GET /health
\* server/index.js lines 457-459: res.status(200).json({ status: 'ok' })
IxHealth == [status |-> 200, keys |-> {"status"}, rpcEndpoint |-> ""]

\* part_000 lines 39-50, part_001 lines 75-86: res.json({status,
\* environment, rpcEndpoint: connection?.rpcEndpoint || 'not connected'})
P0Health(conn) ==
    [status |-> 200, keys |-> {"status", "environment", "rpcEndpoint"},
     rpcEndpoint |-> IF conn THEN "url" ELSE "not connected"]

\* part_002 registers one route, /api/transactions/:walletAddress, and no
\* fallback: the framework answers any other path with 404
P2Health == [status |-> 404, keys |-> {}, rpcEndpoint |-> ""]

\* a GET /health request, at any moment of the process
Health ==
    /\ health' = CASE variant = "server_index" -> IxHealth
                   [] variant \in {"part_000", "part_001"} -> P0Health(connection)
                   [] OTHER -> P2Health
    /\ UNCHANGED <<envVars, pc, net, resp, nResp, retryVars, failedCall,
                   connection, loc, cb, txcb, cacheVars, lookups, sample, client>>

\* the server with both routes
NextHealth == Next \/ Health

SpecHealth == Init /\ [][NextHealth]_vars

\* ------------------------------------------------- the price-cache driver
\* Sequential getTokenPrice lookups against one process-wide cache, with
\* the clock advancing between them.
PriceMints == {USDC_MINT, OTHER_MINT}

\* the timestamps (tx.blockTime) server/index.js passes to getTokenPrice
AsOfs == {100, 200}

InitPrice ==
    /\ variant \in {"server_index", "part_001"}
    /\ addr = "oncurve"
    /\ pc = "price"
    /\ connection = TRUE
    /\ InitCommon

\* the keys whose entry differs between two caches
Written(before, after) ==
    {k \in DOMAIN after : k \notin DOMAIN before \/ after[k] # before[k]}

Lookup(mint, asOf, key, before, r, out) ==
    [mint |-> mint, asOf |-> asOf, key |-> key, at |-> now,
     price |-> r.price, calls |-> r.calls,
     out |-> IF r.calls = 0 THEN "none" ELSE out.kind,
     written |-> Written(before, r.cache)]

\* one call of getTokenPrice(mintAddress, timestamp) of server/index.js
PriceLookupIndex ==
    /\ variant = "server_index" /\ pc = "price"
    /\ Len(lookups) < MaxLookups
    /\ \E mint \in PriceMints, asOf \in AsOfs, out \in SourceOutcomes :
         LET r == GetTokenPriceIndex(tokenPriceCache, mint, asOf, out)
         IN /\ tokenPriceCache' = r.cache
            /\ Call("price", r.calls)
            /\ lookups' = Append(lookups,
                   Lookup(mint, asOf, CacheKeyIndex(mint, asOf), tokenPriceCache, r, out))
    /\ UNCHANGED <<envVars, pc, resp, nResp, retryVars, failedCall, connection,
                   loc, cb, txcb, tokenMetadataCache, jupiterTokenList, sample, health, client>>

\* one call of getTokenPrice(mint) of part_001
PriceLookupP1 ==
    /\ variant = "part_001" /\ pc = "price"
    /\ Len(lookups) < MaxLookups
    /\ \E mint \in PriceMints, out \in SourceOutcomes :
         LET r == GetTokenPriceP1(tokenPriceCache, now, mint, out)
         IN /\ tokenPriceCache' = r.cache
            /\ Call("price", r.calls)
            /\ lookups' = Append(lookups, Lookup(mint, 0, mint, tokenPriceCache, r, out))
    /\ UNCHANGED <<envVars, pc, resp, nResp, retryVars, failedCall, connection,
                   loc, cb, txcb, tokenMetadataCache, jupiterTokenList, sample, health, client>>

\* time passes between two lookups
Tick ==
    /\ pc = "price"
    /\ now + TickMs <= MaxNow
    /\ now' = now + TickMs
    /\ UNCHANGED <<variant, addr, pc, net, resp, nResp, retryVars, failedCall,
                   connection, loc, cb, txcb, cacheVars, lookups, sample, health, client>>

NextPrice ==
    \/ PriceLookupIndex
    \/ PriceLookupP1
    \/ Tick

SpecPrice == InitPrice /\ [][NextPrice]_vars

\* ================================================== metadata resolver driver
\* getTokenMetadata (server/index.js lines 68-129) called for a series of
\* mints on one process; calls overlap as the callbacks of Promise.all do.
\* cb holds one entry per call, in the order the calls start.
MetaMints == {USDC_MINT, OTHER_MINT}

\* a token account with a positive balance for mint, as the holdings map
\* hands it to getTokenMetadata
AccountOf(mint) == [mint |-> mint, amount |-> 1, decimals |-> 0, uiAmount |-> 1]

\* the default decimal count of the synthetic fallback
DEFAULT_DECIMALS == 9

\* A call of getTokenMetadata(mint) run to its first network await, with
\* what an observer records of it: where the result came from, whether
\* the call searched a list that holds the mint, the requests it sent,
\* the answer of its on-chain lookup and the calls that had returned when
\* it started.
MetaBegin(mint, cache, list, returned) ==
    LET c == CbStart(AccountOf(mint), cache, list)
    IN [mint |-> mint,
        st |-> IF c.st = "found" THEN "done" ELSE c.st,
        meta |-> c.meta,
        source |-> CASE c.st = "done" -> "cache"
                     [] c.st = "found" -> "list"
                     [] OTHER -> "",
        inList |-> c.st = "found",
        listCalls |-> IF c.st = "await_list" THEN 1 ELSE 0,
        chainCalls |-> IF c.st = "await_chain" THEN 1 ELSE 0,
        chainOut |-> "",
        seen |-> returned]

InitMeta ==
    /\ variant = "server_index"
    /\ addr = "oncurve"
    /\ pc = "meta"
    /\ connection = TRUE
    /\ InitCommon

\* lines 68-91: a call starts and runs to its first network await
MetaStart ==
    /\ pc = "meta"
    /\ Len(cb) < MaxResolutions
    /\ \E mint \in MetaMints :
         LET r == MetaBegin(mint, tokenMetadataCache, jupiterTokenList,
                            {j \in DOMAIN cb : cb[j].st = "done"})
         IN /\ cb' = Append(cb, r)
            /\ tokenMetadataCache' =
                   IF r.source = "list"
                   THEN (mint :> r.meta) @@ tokenMetadataCache
                   ELSE tokenMetadataCache
            /\ net' = [net EXCEPT !.list = @ + r.listCalls, !.rpc = @ + r.chainCalls]
    /\ UNCHANGED <<envVars, pc, resp, nResp, retryVars, failedCall, connection,
                   loc, txcb, tokenPriceCache, jupiterTokenList, lookups, sample, health, client>>

\* lines 53-91: the bulk list request of call i returns
MetaListReply(i) ==
    /\ pc = "meta"
    /\ i \in DOMAIN cb /\ cb[i].st = "await_list"
    /\ \E ok \in BOOLEAN :
         /\ jupiterTokenList' = (jupiterTokenList \/ ok)
         /\ IF cb[i].mint \in TokensOnReply(ok)
            THEN /\ cb' = [cb EXCEPT ![i].meta = ListMetadata(cb[i].mint),
                                     ![i].st = "done", ![i].source = "list",
                                     ![i].inList = TRUE]
                 /\ tokenMetadataCache' =
                        (cb[i].mint :> ListMetadata(cb[i].mint)) @@ tokenMetadataCache
                 /\ UNCHANGED net
            ELSE /\ cb' = [cb EXCEPT ![i].st = "await_chain", ![i].chainCalls = @ + 1]
                 /\ Call("rpc", 1)
                 /\ UNCHANGED tokenMetadataCache
    /\ UNCHANGED <<envVars, pc, resp, nResp, retryVars, failedCall, connection,
                   loc, txcb, tokenPriceCache, lookups, sample, health, client>>

\* lines 93-120: the on-chain lookup of call i returns
MetaChainReply(i) ==
    /\ pc = "meta"
    /\ i \in DOMAIN cb /\ cb[i].st = "await_chain"
    /\ \E out \in ChainOutcomes :
         IF out = "symbol"
         THEN /\ cb' = [cb EXCEPT ![i].meta = ChainMetadata(cb[i].mint),
                                  ![i].st = "done", ![i].source = "chain",
                                  ![i].chainOut = out]
              /\ tokenMetadataCache' =
                     (cb[i].mint :> ChainMetadata(cb[i].mint)) @@ tokenMetadataCache
         ELSE /\ cb' = [cb EXCEPT ![i].meta = FallbackMetadata(cb[i].mint),
                                  ![i].st = "done", ![i].source = "fallback",
                                  ![i].chainOut = out]
              /\ UNCHANGED tokenMetadataCache
    /\ UNCHANGED <<envVars, pc, net, resp, nResp, retryVars, failedCall,
                   connection, loc, txcb, tokenPriceCache, jupiterTokenList, lookups, sample, health, client>>

NextMeta ==
    \/ MetaStart
    \/ \E i \in 1..MaxResolutions : MetaListReply(i)
    \/ \E i \in 1..MaxResolutions : MetaChainReply(i)

SpecMeta == InitMeta /\ [][NextMeta]_vars

\* ======================================================= classifier driver
\* One fetched record is handed to the inline classification of
\* server/index.js (lines 337-411) or of part_000 (lines 106-171).
\* Native balances of the record's first two account positions.
NativeCases ==
    { [pre |-> <<20000, 9000>>, post |-> <<20000, 9000>>],
      [pre |-> <<20000, 9000>>, post |-> <<15000, 14000>>],
      [pre |-> <<20000, 9000>>, post |-> <<20000, 4000>>] }

\* Token balance lists of the record: none, unchanged, one gain, a paired
\* swap, an entry only in the post list, an entry only in the pre list, a
\* swap between two unpaired entries, a paired swap listed in another order,
\* an empty entry only in the post list, an empty entry only in the pre list
\* (a uiAmount of null counts as 0 in the comparisons and differences).
TokenCases ==
    { [pre |-> <<>>, post |-> <<>>],
      [pre |-> <<TB(1, USDC_MINT, 5)>>, post |-> <<TB(1, USDC_MINT, 5)>>],
      [pre |-> <<TB(1, USDC_MINT, 5)>>, post |-> <<TB(1, USDC_MINT, 15)>>],
      [pre |-> <<TB(1, USDC_MINT, 10), TB(2, OTHER_MINT, 0)>>,
       post |-> <<TB(1, USDC_MINT, 4), TB(2, OTHER_MINT, 8)>>],
      [pre |-> <<>>, post |-> <<TB(2, OTHER_MINT, 8)>>],
      [pre |-> <<TB(1, USDC_MINT, 10)>>, post |-> <<>>],
      [pre |-> <<TB(1, USDC_MINT, 10)>>, post |-> <<TB(2, OTHER_MINT, 8)>>],
      [pre |-> <<TB(1, USDC_MINT, 10), TB(2, OTHER_MINT, 0)>>,
       post |-> <<TB(2, OTHER_MINT, 8), TB(1, USDC_MINT, 4)>>],
      [pre |-> <<TB(1, USDC_MINT, 10)>>,
       post |-> <<TB(1, USDC_MINT, 4), TB(2, OTHER_MINT, 0)>>],
      [pre |-> <<TB(1, USDC_MINT, 10), TB(2, OTHER_MINT, 0)>>,
       post |-> <<TB(1, USDC_MINT, 14)>>] }

\* the records getParsedTransaction / getTransaction can hand over
ClassifyPool ==
    { Tx(TRUE, 100, 5000, inner, w, n.pre, n.post, t.pre, t.post) :
        inner \in BOOLEAN, w \in {0, 1}, n \in NativeCases, t \in TokenCases }

\* the native-asset price index.js holds when it classifies
ClassifyPrices == {1, 2}

InitClassify ==
    /\ variant \in {"server_index", "part_000"}
    /\ addr = "oncurve"
    /\ pc = "classify"
    /\ connection = TRUE
    /\ InitCommon

\* index.js line 331 / part_000 line 100: the record arrives
ClassifyFetch ==
    /\ pc = "classify" /\ sample.st = "none"
    /\ \E tx \in ClassifyPool : sample' = [st |-> "fetched", tx |-> tx]
    /\ Call("rpc", 1)
    /\ UNCHANGED <<envVars, pc, resp, nResp, retryVars, failedCall, connection,
                   loc, cb, txcb, cacheVars, lookups, health, client>>

\* index.js lines 337-414: the loop body after the fetch
ClassifyIndex ==
    /\ variant = "server_index" /\ pc = "classify" /\ sample.st = "fetched"
    /\ \E solPrice \in ClassifyPrices :
         LET sig == SigRef(1, sample.tx)
         IN sample' = [st |-> "done", tx |-> sample.tx,
                       kept |-> ~IxThrows(sample.tx),
                       ev |-> IF IxThrows(sample.tx) THEN NoEvent
                              ELSE IxClassify(sig, sample.tx, solPrice, now)]
    /\ UNCHANGED <<envVars, pc, net, resp, nResp, retryVars, failedCall,
                   connection, loc, cb, txcb, cacheVars, lookups, health, client>>

\* part_000 lines 106-175: the callback after the fetch
ClassifyP0 ==
    /\ variant = "part_000" /\ pc = "classify" /\ sample.st = "fetched"
    /\ LET r == P0Process(SigRef(1, sample.tx), sample.tx)
       IN sample' = [st |-> "done", tx |-> sample.tx, kept |-> r.keep, ev |-> r.ev]
    /\ UNCHANGED <<envVars, pc, net, resp, nResp, retryVars, failedCall,
                   connection, loc, cb, txcb, cacheVars, lookups, health, client>>

NextClassify ==
    \/ ClassifyFetch
    \/ ClassifyIndex
    \/ ClassifyP0

SpecClassify == InitClassify /\ [][NextClassify]_vars

\* ------------------------------------------- aggregation, as computed
\* server/index.js lines 417-437 applied to an event list and to the same
\* list in another order.  The sums are JavaScript numbers: every
\* addition rounds its result to the significand, to nearest, ties to
\* even.  The significand is SignificandBits wide here (53 in the
\* runtime).
RECURSIVE BitLength(_)
BitLength(n) == IF n = 0 THEN 0 ELSE 1 + BitLength(n \div 2)

RECURSIVE Pow2(_)
Pow2(n) == IF n = 0 THEN 1 ELSE 2 * Pow2(n - 1)

\* the number nearest to x that the significand can hold
Fl(x) ==
    LET a == Abs(x)
        e == BitLength(a) - SignificandBits
    IN IF e <= 0 THEN x
       ELSE LET u == Pow2(e)
                q == a \div u
                r == a % u
                up == r > u \div 2 \/ (r = u \div 2 /\ q % 2 = 1)
                m == (IF up THEN q + 1 ELSE q) * u
            IN IF x < 0 THEN -m ELSE m

\* a + b on numbers
FlAdd(a, b) == Fl(a + b)

RECURSIVE FlFees(_, _)
\* transactions.reduce((sum, tx) => sum + tx.fees, 0), from the left
FlFees(sum, txs) ==
    IF txs = <<>> THEN sum ELSE FlFees(FlAdd(sum, Head(txs).fee), Tail(txs))

RECURSIVE FlGains(_, _)
\* lines 426-430: taxSummary.capitalGains += tx.profit, from the left
FlGains(sum, txs) ==
    IF txs = <<>> THEN sum
    ELSE FlGains(IF Head(txs).type = "SWAP" /\ Head(txs).profit > 0
                 THEN FlAdd(sum, Head(txs).profit) ELSE sum, Tail(txs))

RECURSIVE FlIncome(_, _)
\* lines 431-433: taxSummary.totalIncome += tx.inTokens[0].usdValue
FlIncome(sum, txs) ==
    IF txs = <<>> THEN sum
    ELSE FlIncome(IF Head(txs).type = "SOL_TRANSFER" /\ Head(txs).inTokens # <<>>
                  THEN FlAdd(sum, Head(txs).inTokens[1].usdValue) ELSE sum,
                  Tail(txs))

\* lines 417-437 on numbers; taxLiability times 100
FlTaxSummary(txs) ==
    [present |-> TRUE, totalIncome |-> FlIncome(0, txs),
     capitalGains |-> FlGains(0, txs), totalFees |-> FlFees(0, txs),
     taxLiability |-> FlAdd(Fl(INCOME_RATE_PCT * FlIncome(0, txs)),
                            Fl(GAINS_RATE_PCT * FlGains(0, txs)))]

\* fees of records, in lamports
FeePool == {5000, 5005, 10000, 25000}

\* classified events as index.js builds them: a native receipt and a swap
\* for each fee, every amount already a number
EventPool ==
    {Event("sig", 0, "SOL_TRANSFER", <<Token("SOL", f, Fl(2 * f))>>, <<>>,
           Fl(f), "SOL", 0) : f \in FeePool}
    \cup {Event("sig", 0, "SWAP", <<>>, <<>>, Fl(f), "SOL", Fl(3 * f)) : f \in FeePool}

RECURSIVE EventLists(_)
EventLists(n) ==
    IF n = 0 THEN {<<>>}
    ELSE {Append(q, e) : q \in EventLists(n - 1), e \in EventPool}

\* the orders a sequence can be put in
Orders(s) ==
    {[i \in DOMAIN s |-> s[f[i]]] :
        f \in {g \in [DOMAIN s -> DOMAIN s] : \A i, j \in DOMAIN s : g[i] = g[j] => i = j}}

InitAggregate ==
    /\ variant = "server_index"
    /\ addr = "oncurve"
    /\ pc = "aggregate"
    /\ connection = TRUE
    /\ InitCommon

\* line 411: the record loop has filled transactions
AggregateEvents ==
    /\ pc = "aggregate" /\ sample.st = "none"
    /\ \E n \in 1..MaxEvents : \E txs \in EventLists(n) :
         sample' = [st |-> "listed", transactions |-> txs]
    /\ UNCHANGED <<envVars, pc, net, resp, nResp, retryVars, failedCall,
                   connection, loc, cb, txcb, cacheVars, lookups, health, client>>

\* lines 417-437, run on the list and on the list in another order
AggregateBoth ==
    /\ pc = "aggregate" /\ sample.st = "listed"
    /\ \E other \in Orders(sample.transactions) :
         sample' = [st |-> "summed", transactions |-> sample.transactions,
                    other |-> other,
                    taxSummary |-> FlTaxSummary(sample.transactions),
                    otherSummary |-> FlTaxSummary(other)]
    /\ UNCHANGED <<envVars, pc, net, resp, nResp, retryVars, failedCall,
                   connection, loc, cb, txcb, cacheVars, lookups, health, client>>

NextAggregate ==
    \/ AggregateEvents
    \/ AggregateBoth

SpecAggregate == InitAggregate /\ [][NextAggregate]_vars

\* ------------------------------------- part_002: the record loop at length
\* The record loop and the summary of calculateYearPL on listings longer than
\* the ten events a response returns (the listing limit is 25).
MaxProcessed == 11

YearSigNames ==
    <<"y01", "y02", "y03", "y04", "y05", "y06", "y07", "y08", "y09", "y10",
      "y11", "y12", "y13">>

YearTimes == {200, 300}

YearProcessed == IF sample.st = "none" THEN <<>> ELSE sample.transactions

InitYear ==
    /\ variant = "part_002"
    /\ addr = "oncurve"
    /\ pc = "year"
    /\ connection = TRUE
    /\ InitCommon

\* lines 301-334: one iteration of the record loop whose record is fetched
YearRecord ==
    /\ pc = "year" /\ sample.st \in {"none", "loop"}
    /\ Len(YearProcessed) < MaxProcessed
    /\ \E t \in YearTimes :
         sample' = [st |-> "loop",
                    transactions |-> Append(YearProcessed,
                        Event(YearSigNames[Len(YearProcessed) + 1], t, "", <<>>, <<>>, 0, "", 0))]
    /\ UNCHANGED <<envVars, pc, net, resp, nResp, retryVars, failedCall,
                   connection, loc, cb, txcb, cacheVars, lookups, health, client>>

\* lines 340-346: the summary of the processed records
YearSummary ==
    /\ pc = "year" /\ sample.st = "loop"
    /\ sample' = [st |-> "returned",
                  processed |-> sample.transactions,
                  trades |-> Len(sample.transactions),
                  transactions |-> Slice10(SortByTime(sample.transactions))]
    /\ UNCHANGED <<envVars, pc, net, resp, nResp, retryVars, failedCall,
                   connection, loc, cb, txcb, cacheVars, lookups, health, client>>

NextYear ==
    \/ YearRecord
    \/ YearSummary

SpecYear == InitYear /\ [][NextYear]_vars

\* ------------------------------------------------------ the React client
\* The App component of src/client/src/App.js, of part_003 and of part_005
\* in front of server/index.js.  client.flights holds the submissions that
\* wait for an answer; client.sent is the list of requests that left the
\* browser, client.healthOk / client.healthFailed the submissions whose
\* health check came back OK / did not.  A submission is named by its
\* number; walletData and error carry the number of the submission they
\* come from, 0 when they are null.
MaxSubmits == 3

Apps == {"App", "part_003", "part_005"}

Addresses == {"A", "B"}

NoData == [id |-> 0, address |-> ""]

NoError == [id |-> 0]

\* server/index.js lines 457-480: the status of GET path.  /health is a
\* route; any other path gets index.html in production and the 404 handler
\* otherwise.
HealthStatus(path, production) ==
    IF path = "/health" THEN 200
    ELSE IF production THEN 200 ELSE 404

\* the path of the health check of each client
HealthPath(app) == IF app = "App" THEN "/health" ELSE "/api/health"

Request(id, path, address) == [id |-> id, path |-> path, address |-> address]

\* App.js lines 13-41: calculateTaxes up to the health check request
AppSubmit(c, n) ==
    [c EXCEPT !.loading = TRUE, !.error = NoError, !.walletData = NoData,
              !.submitted = n,
              !.flights = @ \cup {[id |-> n, address |-> c.walletAddress, stage |-> "health"]},
              !.sent = Append(@, Request(n, "/health", ""))]

\* part_003 lines 35-42: handleSubmit up to the health check request
P3Submit(c, n) ==
    [c EXCEPT !.loading = TRUE, !.error = NoError,
              !.submitted = n,
              !.flights = @ \cup {[id |-> n, address |-> c.walletAddress, stage |-> "health"]},
              !.sent = Append(@, Request(n, "/api/health", ""))]

\* part_005 lines 63-70 and 16-29: handleCalculate and fetchWalletData up
\* to the transactions request
P5Submit(c, n) ==
    [c EXCEPT !.loading = TRUE, !.error = NoError, !.walletData = NoData,
              !.submitted = n,
              !.flights = @ \cup {[id |-> n, address |-> c.walletAddress, stage |-> "transactions"]},
              !.sent = Append(@, Request(n, "/api/transactions", c.walletAddress))]

\* App.js lines 123-129: the Calculate button is enabled
AppButton(c) == ~c.loading /\ c.walletAddress # ""

\* part_003 line 161, part_005 line 165: the Calculate button is enabled
P3Button(c) == c.walletAddress # ""

\* App.js lines 42-55 and 70-75, part_003 lines 43-50 and 62-66: the health
\* check of flight f came back; ok is healthCheck.ok
HealthReply(c, f, ok) ==
    IF ok
    THEN [c EXCEPT !.healthOk = @ \cup {f.id},
                   !.flights = (@ \ {f}) \cup {[f EXCEPT !.stage = "transactions"]},
                   !.sent = Append(@, Request(f.id, "/api/transactions", f.address)),
                   !.loading = IF c.app = "part_003" THEN TRUE ELSE @]
    ELSE [c EXCEPT !.healthFailed = @ \cup {f.id},
                   !.flights = @ \ {f},
                   !.error = [id |-> f.id],
                   !.loading = FALSE]

\* App.js lines 56-75, part_003 lines 51-66, part_005 lines 30-61: the
\* transactions request of flight f came back; ok: a success body
TxReply(c, f, ok) ==
    IF ok
    THEN [c EXCEPT !.flights = @ \ {f},
                   !.walletData = [id |-> f.id, address |-> f.address],
                   !.loading = FALSE]
    ELSE [c EXCEPT !.flights = @ \ {f},
                   !.error = [id |-> f.id],
                   !.walletData = IF c.app = "part_005" THEN NoData ELSE @,
                   !.loading = FALSE]

InitClient ==
    /\ variant = "server_index"
    /\ addr = "oncurve"
    /\ pc = "client"
    /\ connection = TRUE
    /\ InitCommon

\* the App component is rendered for the first time (useState defaults)
ClientMount ==
    /\ pc = "client" /\ client = NoClient
    /\ \E app \in Apps, production \in BOOLEAN :
         client' = [app |-> app, production |-> production, walletAddress |-> "",
                    walletData |-> NoData, error |-> NoError, loading |-> FALSE,
                    flights |-> {}, sent |-> <<>>, healthOk |-> {},
                    healthFailed |-> {}, submitted |-> 0]
    /\ UNCHANGED <<envVars, pc, net, resp, nResp, retryVars, failedCall,
                   connection, loc, cb, txcb, cacheVars, lookups, sample, health>>

\* the address input changes (App.js line 119; handleInputChange of
\* part_003 lines 69-77 and part_005 lines 73-81, which clears the error)
ClientInput ==
    /\ pc = "client" /\ client # NoClient
    /\ \E value \in Addresses \cup {""} :
         /\ value # client.walletAddress
         /\ client' = IF client.app # "App" /\ client.error # NoError
                      THEN [client EXCEPT !.walletAddress = value,
                                          !.error = NoError, !.loading = FALSE]
                      ELSE [client EXCEPT !.walletAddress = value]
    /\ UNCHANGED <<envVars, pc, net, resp, nResp, retryVars, failedCall,
                   connection, loc, cb, txcb, cacheVars, lookups, sample, health>>

\* a click on the Calculate button
ClientSubmit ==
    /\ pc = "client" /\ client # NoClient
    /\ client.submitted < MaxSubmits
    /\ CASE client.app = "App" ->
              /\ AppButton(client)
              /\ client' = AppSubmit(client, client.submitted + 1)
         [] client.app = "part_003" ->
              /\ P3Button(client)
              /\ client' = P3Submit(client, client.submitted + 1)
         [] OTHER ->
              /\ P3Button(client)
              /\ client' = P5Submit(client, client.submitted + 1)
    /\ UNCHANGED <<envVars, pc, net, resp, nResp, retryVars, failedCall,
                   connection, loc, cb, txcb, cacheVars, lookups, sample, health>>

\* the health check of a submission is answered, or fails to reach the server
ClientHealthReply ==
    /\ pc = "client" /\ client # NoClient
    /\ \E f \in client.flights, reached \in BOOLEAN :
         /\ f.stage = "health"
         /\ client' = HealthReply(client, f,
                reached /\ HealthStatus(HealthPath(client.app), client.production) = 200)
    /\ UNCHANGED <<envVars, pc, net, resp, nResp, retryVars, failedCall,
                   connection, loc, cb, txcb, cacheVars, lookups, sample, health>>

\* the transactions request of a submission is answered
ClientTxReply ==
    /\ pc = "client" /\ client # NoClient
    /\ \E f \in client.flights, ok \in BOOLEAN :
         /\ f.stage = "transactions"
         /\ client' = TxReply(client, f, ok)
    /\ UNCHANGED <<envVars, pc, net, resp, nResp, retryVars, failedCall,
                   connection, loc, cb, txcb, cacheVars, lookups, sample, health>>

NextClient ==
    \/ ClientMount
    \/ ClientInput
    \/ ClientSubmit
    \/ ClientHealthReply
    \/ ClientTxReply

SpecClient == InitClient /\ [][NextClient]_vars

\* ================================================================ claims
NetTotal == net.rpc + net.price + net.list

\* the address decodes to a valid on-curve public key
ValidAddr == PublicKeyOk(addr) /\ IsOnCurve(addr)

Done == pc = "done"

\* the body keys a complete summary carries
SummaryKeys ==
    {"balance", "balanceUSD", "tokenAccounts", "transactions", "taxSummary"}

StrictlyIncreasing(s) == \A i \in 1..(Len(s) - 1) : s[i] < s[i + 1]

\* C1: a query whose accountId does not decode to a valid on-curve public
\* key makes no network call at all (RPC, price source, bulk list) and is
\* rejected as invalid input.
C1_NoCallsForMalformed ==
    ~ValidAddr => NetTotal = 0 /\ (Done => resp.status = 400)

\* C2: a query with a malformed accountId ends with a 400 response that
\* carries an error body, never with 500/503 and never with 200.
C2_MalformedEnds400 ==
    (Done /\ ~ValidAddr) => resp.status = 400 /\ "error" \in resp.keys

\* C3: when the balance fetch or the reference listing fails for good, the
\* query has made exactly MAX_RETRIES attempts of that call, with strictly
\* increasing delays between them and none after the last.
C3_ExactlyNAttempts ==
    (Done /\ failedCall \in {"balance", "signatures"}) =>
        /\ attempts[failedCall] = MAX_RETRIES
        /\ Len(delays[failedCall]) = MAX_RETRIES - 1
        /\ StrictlyIncreasing(delays[failedCall])

\* the signatures of the references whose record was fetched and classified
OkSignatures ==
    {loc.signatures[i].signature :
        i \in {j \in DOMAIN loc.signatures : loc.processed[j] = "ok"}}

\* C4: whatever subset of the listed references fails to fetch or classify
\* (all of them included), the query does not fail because of it, and a
\* success returns exactly the events of the records that did not fail.
C4_PartialResults ==
    (Done /\ loc.listed) =>
        /\ failedCall # "records"
        /\ resp.status = 200 =>
             /\ {loc.transactions[i].signature : i \in DOMAIN loc.transactions} = OkSignatures
             /\ Len(loc.transactions) = Cardinality(OkSignatures)

\* C5: a failed balance or holdings call never ends in a 200 response.
C5_HoldingsFailurePropagates ==
    (Done /\ (loc.holdingsFailed \/ failedCall = "balance")) => resp.status # 200

\* C6: every query ends in exactly one response, a success with the whole
\* summary or an error without any of it, and after the response the
\* query makes no network call and sends nothing more.
C6_OneCompleteResponse ==
    /\ [](/\ nResp <= 1
          /\ Done => nResp = 1
          /\ (Done /\ resp.status = 200) => SummaryKeys \subseteq resp.keys
          /\ (Done /\ resp.status # 200) =>
                 "error" \in resp.keys /\ resp.keys \cap SummaryKeys = {})
    /\ [][Done => (net' = net /\ nResp' = nResp)]_vars

\* C7: a valid accountId whose reference listing is empty gets a success
\* with no transactions and a tax summary of zeros.
C7_EmptyListingZeroSummary ==
    (Done /\ ValidAddr /\ loc.listed /\ loc.listing = <<>> /\ resp.status = 200) =>
        /\ loc.transactions = <<>>
        /\ "taxSummary" \in resp.keys
        /\ loc.taxSummary = Summary(0, 0, 0)

\* two lookups use the same cache key
SameKey(a, b) == a.key = b.key

\* lookup j comes within the TTL window after lookup i
WithinTTL(i, j) == lookups[j].at - lookups[i].at < CACHE_DURATION

\* lookup i missed the cache and its external fetch was answered
FetchedOk(i) == lookups[i].calls = 1 /\ lookups[i].out # "fail"

\* C8 (as stated): two sequential lookups for one assetId within the TTL
\* window return the identical price and make exactly one external call
\* in total.
C8_TwoLookupsOneCall ==
    \A i \in 1..(Len(lookups) - 1) :
        (lookups[i].mint = lookups[i + 1].mint /\ WithinTTL(i, i + 1)) =>
            /\ lookups[i + 1].price = lookups[i].price
            /\ lookups[i].calls + lookups[i + 1].calls = 1

\* C8 (amended): when a lookup misses the cache and its external fetch
\* succeeds, the next lookup with the same cache key within the TTL window
\* returns the identical price and makes no external call, so the two
\* cause exactly one external call in total.
C8_HitAfterSuccessfulFetch ==
    \A i \in 1..(Len(lookups) - 1) :
        (SameKey(lookups[i], lookups[i + 1]) /\ WithinTTL(i, i + 1) /\ FetchedOk(i)) =>
            /\ lookups[i + 1].price = lookups[i].price
            /\ lookups[i + 1].calls = 0
            /\ lookups[i].calls + lookups[i + 1].calls = 1

\* a priced fetch followed, later but within the TTL window, by a lookup
\* of the same key, in part_001
C8_Witness ==
    \E i \in 1..(Len(lookups) - 1) :
        /\ variant = "part_001"
        /\ SameKey(lookups[i], lookups[i + 1]) /\ WithinTTL(i, i + 1) /\ FetchedOk(i)
        /\ lookups[i].out = "price"
        /\ lookups[i + 1].at > lookups[i].at
        /\ lookups[i + 1].price = lookups[i].price

\* the last lookup before j that wrote the entry of j's key; 0 if none
LastWrite(j) ==
    LET W == {i \in 1..(j - 1) : lookups[j].key \in lookups[i].written}
    IN IF W = {} THEN 0 ELSE CHOOSE i \in W : \A k \in W : k <= i

\* C9: a cache entry older than the TTL is treated as absent: the lookup
\* that finds it makes exactly one external call and does not answer from
\* the stale entry.
C9_ExpiredEntryRefetched ==
    \A j \in 1..Len(lookups) :
        (LastWrite(j) # 0 /\ lookups[j].at - lookups[LastWrite(j)].at >= CACHE_DURATION) =>
            lookups[j].calls = 1

\* C10: a lookup whose external source fails or has no price returns the
\* default 0 and leaves the cache unchanged; the cache is written only
\* after a successful fetch, and only under the key of the lookup.
C10_FailureLeavesCache ==
    \A i \in 1..Len(lookups) :
        /\ lookups[i].out \in {"fail", "noprice"} =>
               lookups[i].price = 0 /\ lookups[i].written = {}
        /\ lookups[i].written # {} =>
               lookups[i].out = "price" /\ lookups[i].written = {lookups[i].key}

\* C11: no query ends in an error because a price lookup failed: the
\* failure is absorbed, the default price applies and the query succeeds.
C11_PriceFailureAbsorbed ==
    (Done /\ failedCall = "price") => resp.status = 200

\* the calls of the resolver driver that have returned
Returned == {i \in DOMAIN cb : cb[i].st = "done"}

\* C12: a resolution that finds the mint in the bulk list returns the
\* list's symbol, name and decimals and sends no on-chain lookup; one that
\* does not find it and whose on-chain lookup fails or has no symbol
\* returns the fallback: the mint's truncated prefix as symbol, with the
\* default decimal count.
C12_ResolutionOrder ==
    \A i \in Returned :
        /\ cb[i].inList =>
               cb[i].meta = ListMetadata(cb[i].mint) /\ cb[i].chainCalls = 0
        /\ (~cb[i].inList /\ cb[i].chainOut \in {"fail", "nosymbol"}) =>
               /\ cb[i].meta.symbol = Slice8Dots(cb[i].mint)
               /\ cb[i].meta.decimals = DEFAULT_DECIMALS

\* one resolution answered from the list, and another answered with the
\* fallback after its on-chain lookup failed
C12_Witness ==
    /\ \E i \in Returned : cb[i].inList /\ cb[i].meta = ListMetadata(cb[i].mint)
    /\ \E i \in Returned :
          /\ ~cb[i].inList /\ cb[i].chainOut = "fail" /\ cb[i].chainCalls = 1
          /\ cb[i].meta.symbol = Slice8Dots(cb[i].mint)

\* C13: once a resolution of a mint has returned, every resolution of the
\* same mint that starts later returns the same metadata from the cache,
\* without a bulk list request or an on-chain lookup.
C13_CachedForEver ==
    \A i \in Returned : \A j \in Returned :
        (i \in cb[j].seen /\ cb[j].mint = cb[i].mint) =>
            /\ cb[j].meta = cb[i].meta
            /\ cb[j].source = "cache"
            /\ cb[j].listCalls = 0 /\ cb[j].chainCalls = 0

\* C14: at most one request is ever sent to the bulk asset list source.
C14_ListFetchedOnce == net.list <= 1

\* the classifier driver has an event for its record
Classified == sample.st = "done" /\ sample.kept

\* the account positions that have a token balance entry in the record
Keys(tx) == IndexSet(tx.preTokenBalances) \cup IndexSet(tx.postTokenBalances)

\* the amount a balance list holds at a position, 0 when it has no entry
AmountAt(balances, k) ==
    IF FindByIndex(balances, k).found THEN FindByIndex(balances, k).uiAmount ELSE 0

MintAt(tx, k) ==
    IF FindByIndex(tx.postTokenBalances, k).found
    THEN FindByIndex(tx.postTokenBalances, k).mint
    ELSE FindByIndex(tx.preTokenBalances, k).mint

\* the per-asset delta at a position, entries paired on the position key
Delta(tx, k) == AmountAt(tx.postTokenBalances, k) - AmountAt(tx.preTokenBalances, k)

PositiveDeltas(tx) ==
    {[mint |-> MintAt(tx, k), amount |-> Delta(tx, k)] : k \in {j \in Keys(tx) : Delta(tx, j) > 0}}

NegativeDeltas(tx) ==
    {[mint |-> MintAt(tx, k), amount |-> -Delta(tx, k)] : k \in {j \in Keys(tx) : Delta(tx, j) < 0}}

\* the native-asset delta at the queried account's own position
NativeDelta(tx) ==
    tx.postBalances[tx.walletIndex + 1] - tx.preBalances[tx.walletIndex + 1]

\* the (asset, amount) pairs of an inflow or outflow list
Flows(tokens) ==
    {[mint |-> tokens[i].mint, amount |-> tokens[i].amount] : i \in DOMAIN tokens}

\* C15: a record with no per-asset delta and no native delta for the
\* queried account is kept, as an event of type UNKNOWN with empty inflow
\* and outflow lists, and with the record's fee when the account paid it.
C15_NoDeltaIsUnknown ==
    (/\ sample.st = "done"
     /\ PositiveDeltas(sample.tx) = {} /\ NegativeDeltas(sample.tx) = {}
     /\ NativeDelta(sample.tx) = 0) =>
        /\ sample.kept
        /\ sample.ev.type = "UNKNOWN"
        /\ sample.ev.inTokens = <<>> /\ sample.ev.outTokens = <<>>
        /\ sample.tx.walletIndex = 0 => sample.ev.fee = sample.tx.fee

\* C16: an event is a SWAP exactly when the record has a positive and a
\* negative per-asset delta; its inflows are then the positive deltas and
\* its outflows the absolute values of the negative ones.
C16_SwapIffBothSigns ==
    Classified =>
        /\ sample.ev.type = "SWAP" <=>
               (PositiveDeltas(sample.tx) # {} /\ NegativeDeltas(sample.tx) # {})
        /\ sample.ev.type = "SWAP" =>
               /\ Flows(sample.ev.inTokens) = PositiveDeltas(sample.tx)
               /\ Len(sample.ev.inTokens) = Cardinality(PositiveDeltas(sample.tx))
               /\ Flows(sample.ev.outTokens) = NegativeDeltas(sample.tx)
               /\ Len(sample.ev.outTokens) = Cardinality(NegativeDeltas(sample.tx))

\* C17: a record with no per-asset delta and a native delta d # 0 at the
\* queried account's position gives a native transfer with one entry: an
\* inflow of d when d > 0, an outflow of -d when d < 0.
C17_NativeAtOwnPosition ==
    (/\ sample.st = "done"
     /\ PositiveDeltas(sample.tx) = {} /\ NegativeDeltas(sample.tx) = {}
     /\ NativeDelta(sample.tx) # 0) =>
        LET d == NativeDelta(sample.tx)
        IN /\ sample.kept
           /\ sample.ev.type = "SOL_TRANSFER"
           /\ d > 0 => /\ Flows(sample.ev.inTokens) = {[mint |-> "SOL", amount |-> d]}
                       /\ Len(sample.ev.inTokens) = 1
                       /\ sample.ev.outTokens = <<>>
           /\ d < 0 => /\ Flows(sample.ev.outTokens) = {[mint |-> "SOL", amount |-> -d]}
                       /\ Len(sample.ev.outTokens) = 1
                       /\ sample.ev.inTokens = <<>>

\* the positions with an entry in one of the two token balance lists only
Unpaired(tx) ==
    (IndexSet(tx.preTokenBalances) \ IndexSet(tx.postTokenBalances))
        \cup (IndexSet(tx.postTokenBalances) \ IndexSet(tx.preTokenBalances))

\* C18: token balance entries are paired on the account position; an
\* entry found only in the pre list gives an outflow of its whole amount
\* and one found only in the post list an inflow of its whole amount.
C18_UnpairedEntriesCount ==
    Classified =>
        \A k \in Unpaired(sample.tx) :
            /\ Delta(sample.tx, k) > 0 =>
                   [mint |-> MintAt(sample.tx, k), amount |-> Delta(sample.tx, k)]
                       \in Flows(sample.ev.inTokens)
            /\ Delta(sample.tx, k) < 0 =>
                   [mint |-> MintAt(sample.tx, k), amount |-> -Delta(sample.tx, k)]
                       \in Flows(sample.ev.outTokens)

\* C19: the event's fee is the record's fee when the queried account is
\* the fee payer (position 0) and 0 otherwise.
C19_FeeOnlyForPayer ==
    Classified =>
        sample.ev.fee = IF sample.tx.walletIndex = 0 THEN sample.tx.fee ELSE 0

\* C20: the profit of a SWAP event is the sum of its inflow fiat values
\* minus the sum of its outflow fiat values, signed.
C20_SwapProfit ==
    (Classified /\ sample.ev.type = "SWAP") =>
        sample.ev.profit = UsdSum(sample.ev.inTokens) - UsdSum(sample.ev.outTokens)

\* a success response that carries a tax summary
Summarised == Done /\ resp.status = 200 /\ loc.taxSummary.present

\* every listed reference was fetched and classified into an event
NothingDropped ==
    /\ Len(loc.transactions) = Len(loc.signatures)
    /\ \A j \in DOMAIN loc.signatures : loc.processed[j] = "ok"

\* the events of the response that are not swaps
NonSwap == SelectSeq(loc.transactions, LAMBDA e : e.type # "SWAP")

RECURSIVE InflowSum(_)
\* the sum of the inflow fiat values of a sequence of events
InflowSum(txs) ==
    IF txs = <<>> THEN 0 ELSE UsdSum(Head(txs).inTokens) + InflowSum(Tail(txs))

RECURSIVE ProfitSum(_)
\* the signed sum of the profits of the SWAP events of a sequence
ProfitSum(txs) ==
    IF txs = <<>> THEN 0
    ELSE (IF Head(txs).type = "SWAP" THEN Head(txs).profit ELSE 0)
             + ProfitSum(Tail(txs))

\* C21: the inflows of a SWAP event are never counted as income: a summary
\* over swaps only, none of the listed records dropped, has totalIncome 0.
C21_SwapInflowNotIncome ==
    (/\ Summarised /\ NothingDropped
     /\ \A i \in DOMAIN loc.transactions : loc.transactions[i].type = "SWAP") =>
        loc.taxSummary.totalIncome = 0

\* C22: totalIncome is the sum of the inflow fiat values of every non-swap
\* event, native and token inflows alike, and a non-swap event lists every
\* positive per-asset delta of its record as an inflow.
C22_IncomeIsNonSwapInflows ==
    (Summarised /\ NothingDropped) =>
        /\ loc.taxSummary.totalIncome = InflowSum(NonSwap)
        /\ \A i \in DOMAIN loc.transactions :
               loc.transactions[i].type # "SWAP" =>
                   PositiveDeltas(loc.signatures[i].tx)
                       \subseteq Flows(loc.transactions[i].inTokens)

\* C23: capitalGains is the signed sum of the profits of the SWAP events;
\* a swap at a loss lowers it.
C23_GainsAreSignedSum ==
    (Summarised /\ NothingDropped) =>
        loc.taxSummary.capitalGains = ProfitSum(loc.transactions)

\* C24: every success response carries a tax summary whose taxLiability
\* is 0.37 * totalIncome + 0.20 * capitalGains (all three times 100 here).
C24_LiabilityEquation ==
    (Done /\ resp.status = 200) =>
        /\ loc.taxSummary.present
        /\ "taxSummary" \in resp.keys
        /\ loc.taxSummary.taxLiability =
               INCOME_RATE_PCT * loc.taxSummary.totalIncome
                   + GAINS_RATE_PCT * loc.taxSummary.capitalGains

\* C26: totalFees is the sum of the fee fields of the events of the
\* response, and those fee fields are in the unit totalFees is in.
C26_FeesSameUnit ==
    (Summarised /\ NothingDropped) =>
        /\ loc.taxSummary.totalFees = FeeSum(loc.transactions)
        /\ \A i \in DOMAIN loc.transactions : loc.transactions[i].feeUnit = "SOL"

\* C29: a query that fails because init, the balance fetch or the
\* reference listing used up its MAX_RETRIES attempts answers 503.
C29_ExhaustionIs503 ==
    (/\ Done /\ failedCall \in {"init", "balance", "signatures"}
     /\ attempts[failedCall] = MAX_RETRIES) =>
        resp.status = 503

\* C28: only transient failures are retried.  A structurally invalid
\* reply to the reference listing fails the call on that attempt, with no
\* delay and no attempt after it, and an address that does not decode
\* causes no attempt of the balance fetch or the listing at all.
C28_InvalidReplyNotRetried ==
    /\ loc.sigError = "list_invalid" =>
           /\ Done /\ failedCall = "signatures"
           /\ Len(delays.signatures) = attempts.signatures - 1
    /\ ~PublicKeyOk(addr) =>
           /\ attempts.balance = 0 /\ attempts.signatures = 0
           /\ delays.balance = <<>> /\ delays.signatures = <<>>

\* the place of a signature in the reference listing the fetcher delivered
ListingPos(signature) ==
    CHOOSE i \in DOMAIN loc.listing : loc.listing[i].signature = signature

\* every event of the response is the event of a listed reference
EventsAreListed ==
    \A i \in DOMAIN loc.transactions :
        \E j \in DOMAIN loc.listing :
            loc.listing[j].signature = loc.transactions[i].signature

\* the events of the response are in the relative order of the listing
InListingOrder ==
    /\ EventsAreListed
    /\ StrictlyIncreasing([i \in DOMAIN loc.transactions |->
                               ListingPos(loc.transactions[i].signature)])

\* the events are newest first, events of one timestamp in listing order
NewestFirstStable ==
    \A i, j \in DOMAIN loc.transactions :
        i < j =>
            \/ loc.transactions[i].timestamp > loc.transactions[j].timestamp
            \/ /\ loc.transactions[i].timestamp = loc.transactions[j].timestamp
               /\ ListingPos(loc.transactions[i].signature)
                      < ListingPos(loc.transactions[j].signature)

\* the listing was delivered newest first
ListedNewestFirst ==
    \A i \in 1..(Len(loc.listing) - 1) :
        loc.listing[i].blockTime >= loc.listing[i + 1].blockTime

\* C27 as stated: whatever order the record fetches complete in, the
\* events of a success response are a subsequence of the reference
\* listing, in the listing's relative order.
C27_ListingOrderKept ==
    (Done /\ resp.status = 200) => InListingOrder

\* C27 as amended: the events are those of listed references; they are in
\* listing order, except where the handler sorts them by timestamp, newest
\* first and stable (part_002), which is the listing order when the
\* listing was delivered newest first.
C27_OrderOfEvents ==
    (Done /\ resp.status = 200) =>
        /\ EventsAreListed
        /\ variant # "part_002" => InListingOrder
        /\ variant = "part_002" =>
               /\ NewestFirstStable
               /\ ListedNewestFirst => InListingOrder

\* a response of the sorting handler with two events of different times,
\* from a listing that was delivered oldest first
C27_Witness ==
    /\ variant = "part_002"
    /\ Done /\ resp.status = 200 /\ Len(loc.transactions) = 2
    /\ loc.transactions[1].timestamp > loc.transactions[2].timestamp
    /\ ~ListedNewestFirst

\* C30: GET /health always answers 200 with a body that has both status
\* and rpcEndpoint, and rpcEndpoint tells whether the connection to the
\* chain was initialized.
C30_HealthReportsConnection ==
    health # NoHealth =>
        /\ health.status = 200
        /\ {"status", "rpcEndpoint"} \subseteq health.keys
        /\ health.rpcEndpoint = "not connected" <=> ~connection

Concurrent == variant \in {"part_000", "part_001"}

RECURSIVE AddedIncome(_)
\* what the callbacks added to totalIncome, taken together
AddedIncome(cbs) ==
    IF cbs = <<>> THEN 0 ELSE Add(Head(cbs).added, AddedIncome(Tail(cbs)))

RECURSIVE AddedFees(_)
\* what the callbacks added to totalFees, taken together
AddedFees(cbs) == IF cbs = <<>> THEN 0 ELSE Head(cbs).fee + AddedFees(Tail(cbs))

\* C31: no interleaving of the record callbacks loses an update: in a
\* success response totalIncome is the sum of the fiat values the
\* callbacks added for positive deltas, capitalGains the sum of the
\* profits they added and totalFees the sum of the fees they added.
C31_NoLostUpdate ==
    (Summarised /\ Concurrent) =>
        /\ loc.taxSummary.totalIncome = AddedIncome(txcb)
        /\ loc.taxSummary.capitalGains = ProfitSum(KeptEvents(txcb))
        /\ loc.taxSummary.totalFees = AddedFees(txcb)

\* C32: the tax summary is a reduction over the events returned: a
\* record that was dropped (nothing fetched, or an error part-way) added
\* nothing to totalIncome, capitalGains or totalFees.
C32_DroppedAddNothing ==
    Summarised =>
        /\ Concurrent =>
               \A i \in DOMAIN txcb :
                   ~txcb[i].keep => txcb[i].added = 0 /\ txcb[i].fee = 0
        /\ variant = "server_index" =>
               loc.taxSummary = IxTaxSummary(loc.transactions)

\* C33: the stages come in the order balance, listing, records, summary:
\* the reference listing is asked for only after the balance fetch, a
\* record is dealt with only after the listing came back, and the summary
\* is made only when no record is pending.
C33_StageOrder ==
    /\ attempts.signatures > 0 => attempts.balance > 0
    /\ (\E j \in DOMAIN loc.processed : loc.processed[j] # "pending") => loc.listed
    /\ (Done /\ resp.status = 200) =>
           \A j \in DOMAIN loc.processed : loc.processed[j] # "pending"

\* the call came back with a result
Succeeded(call) ==
    CASE call = "init" -> attempts.init > 0 /\ pc # "p2_init" /\ failedCall # "init"
      [] call = "balance" ->
             attempts.balance > 0 /\ pc # "p2_balance" /\ failedCall # "balance"
      [] OTHER -> loc.listed

RetriedCalls == {"init", "balance", "signatures"}

\* a call that succeeded took k <= MAX_RETRIES attempts and k - 1 delays,
\* and its result is the one the query holds
SucceededOnAttemptK ==
    \A call \in RetriedCalls :
        Succeeded(call) =>
            /\ attempts[call] \in 1..MAX_RETRIES
            /\ Len(delays[call]) = attempts[call] - 1
            /\ (call = "balance" /\ failedCall = "") =>
                   loc.balance \in BalanceOutcomes \ {-1}

\* nothing is attempted and no delay is taken after the success
NothingAfterSuccess ==
    \A call \in RetriedCalls :
        Succeeded(call) =>
            attempts'[call] = attempts[call] /\ delays'[call] = delays[call]

\* C34: a retried call that first succeeds on attempt k is attempted
\* exactly k times, 1 <= k <= MAX_RETRIES: k - 1 delays were taken before
\* the success, no attempt and no delay follows it, and the query uses the
\* result of that attempt.
C34_SuccessOnAttemptK == []SucceededOnAttemptK /\ [][NothingAfterSuccess]_vars

\* the balance loop and the listing loop both succeeded on a later attempt
C34_Witness ==
    /\ variant = "part_002" /\ Done /\ resp.status = 200
    /\ attempts.balance > 1 /\ attempts.signatures > 1

\* C35: no query blocks for ever: when every network call returns or
\* fails in the end, the query sends its response in the end.
C35_EveryQueryResponds == <>(Done /\ nResp = 1)

\* a query that answered after using retries in the balance loop and in
\* the listing loop and going through the record loop
C35_Witness ==
    /\ variant = "part_002" /\ Done /\ nResp = 1
    /\ attempts.balance = MAX_RETRIES /\ attempts.signatures = MAX_RETRIES
    /\ Len(loc.signatures) > 0 /\ loc.idx > Len(loc.signatures)

EventsOf(signature, events) == {i \in DOMAIN events : events[i].signature = signature}

NoSignatureTwice(events) ==
    \A i, j \in DOMAIN events : events[i].signature = events[j].signature => i = j

\* C36: every reference whose record was fetched and classified yields
\* exactly one event of the response, carrying its signature; no signature
\* appears twice; the events are never more than the references listed.
C36_OneEventPerRecord ==
    sample.st = "returned" =>
        /\ \A i \in DOMAIN sample.processed :
             Cardinality(EventsOf(sample.processed[i].signature, sample.transactions)) = 1
        /\ NoSignatureTwice(sample.transactions)
        /\ Len(sample.transactions) <= Len(sample.processed)

\* C36 on whole queries: the same statement over the handlers' responses
C36_OneEventPerRecordServed ==
    (Done /\ resp.status = 200) =>
        /\ \A i \in DOMAIN loc.signatures :
             loc.processed[i] = "ok" =>
                 Cardinality(EventsOf(loc.signatures[i].signature, loc.transactions)) = 1
        /\ NoSignatureTwice(loc.transactions)
        /\ Len(loc.transactions) <= Len(loc.signatures)


AllPositive(tokens) == \A i \in DOMAIN tokens : tokens[i].amount > 0

\* C37: every entry of an event's inflow list and of its outflow list has
\* a strictly positive amount; a balance entry whose delta is zero yields
\* neither an inflow nor an outflow.
C37_FlowsArePositive ==
    Classified => AllPositive(sample.ev.inTokens) /\ AllPositive(sample.ev.outTokens)

\* the holdings callbacks whose bulk list request failed
ListFailed == {i \in DOMAIN cb : cb[i].listOut = "fail"}

\* the holdings stage of server/index.js is over
HoldingsListed == pc \notin {"start", "ix_balance", "ix_holdings", "ix_meta"}

\* C38: a bulk list that fails to load is not fatal: the resolution goes on
\* to the on-chain lookup as with an empty list and returns the on-chain
\* metadata or the synthetic fallback, a full {symbol, name, decimals}
\* triple, and the holdings listing of the query is produced from it.
C38_ListFailureNonFatal ==
    (variant = "server_index" /\ ListFailed # {}) =>
        /\ \A i \in ListFailed :
             /\ cb[i].st \in {"await_chain", "done"}
             /\ cb[i].st = "done" =>
                  /\ cb[i].meta \in {ChainMetadata(cb[i].mint), FallbackMetadata(cb[i].mint)}
                  /\ cb[i].meta.symbol # "" /\ cb[i].meta.name # ""
                  /\ cb[i].meta.decimals > 0
        /\ HoldingsListed =>
             /\ ~loc.holdingsFailed
             /\ loc.tokenAccounts = SortDesc(KeptHoldings(cb))
             /\ \A i \in ListFailed : \E k \in DOMAIN loc.tokenAccounts :
                  /\ loc.tokenAccounts[k].mint = cb[i].mint
                  /\ loc.tokenAccounts[k].symbol = cb[i].meta.symbol
        /\ (Done /\ resp.status = 200) => "tokenAccounts" \in resp.keys

\* a query answered with the holding of a mint the bulk list knows, named
\* by the fallback because the list failed to load
C38_Witness ==
    /\ variant = "server_index" /\ Done /\ resp.status = 200
    /\ \E i \in ListFailed :
         /\ cb[i].mint \in JupiterList
         /\ cb[i].meta = FallbackMetadata(cb[i].mint)
    /\ Len(loc.tokenAccounts) > 0

\* the submissions whose transactions request left the browser
TxSent == {client.sent[i].id : i \in {j \in DOMAIN client.sent : client.sent[j].path = "/api/transactions"}}

\* a step in which the health check of a submission fails leaves the
\* client with an error, no wallet data and loading cleared
HealthFailureEnds ==
    (client # NoClient /\ client'.healthFailed # client.healthFailed) =>
        /\ client'.error # NoError
        /\ client'.walletData = NoData
        /\ ~client'.loading

\* C39: the transactions request of a submission is sent only after its
\* health check came back OK; when the health check fails or errors no
\* transactions request is sent for it and the client ends with an error,
\* no wallet data and loading cleared.
C39_HealthCheckFirst ==
    /\ [](client # NoClient =>
            /\ TxSent \subseteq client.healthOk
            /\ TxSent \cap client.healthFailed = {})
    /\ [][HealthFailureEnds]_vars

\* C40: the client never has two wallet queries in flight, and when no
\* query is in flight the wallet data and the error on screen come from the
\* most recent submission.
C40_OneQueryInFlight ==
    client # NoClient =>
        /\ Cardinality(client.flights) <= 1
        /\ client.flights = {} =>
               /\ client.walletData # NoData => client.walletData.id = client.submitted
               /\ client.error # NoError => client.error.id = client.submitted

====
